---- MODULE Spec2Model ----
(***************************************************************************)
(* lexi-matic: a derive macro that compiles the token and skip patterns of *)
(* an enum into one anchored dense DFA (MatchKind::All), the scan step     *)
(* dfa_search_next over that DFA, and the generated iterator whose next()  *)
(* drives the scan step, the skip arm and the `more` continuation hooks.   *)
(*                                                                         *)
(* Strings are sequences of one-character strings.  Pattern ids and        *)
(* offsets are 0-based as in the Rust code; TLA+ sequences are 1-based, so *)
(* pattern id p is regexes[p + 1] and byte index i is input[i + 1].        *)
(***************************************************************************)
EXTENDS Integers, Sequences, FiniteSets, TLC

\* Longest input string that Init enumerates.
MaxLen == 5
\* Largest constant a constant `more` hook adds to the match length.
MaxExtra == 2

(***************************************************************************)
(* Regular expressions, as the abstract syntax regex_automata compiles.    *)
(***************************************************************************)
Empty == <<"empty">>
Eps == <<"eps">>
Chr(S) == <<"chr", S>>

Cat(a, b) ==
    IF a[1] = "empty" \/ b[1] = "empty" THEN Empty
    ELSE IF a[1] = "eps" THEN b
    ELSE <<"cat", a, b>>

Alt(a, b) ==
    IF a[1] = "empty" THEN b
    ELSE IF b[1] = "empty" THEN a
    ELSE <<"alt", a, b>>

Star(a) == <<"star", a>>

Plus(a) == Cat(a, Star(a))

\* #[token = "S"]: regex_syntax::escape(S) is a regex that matches exactly
\* the characters of S, one after the other.
RECURSIVE escape(_)
escape(lit) ==
    IF Len(lit) = 0 THEN Eps
    ELSE IF Len(lit) = 1 THEN Chr({lit[1]})
    ELSE <<"cat", Chr({lit[1]}), escape(Tail(lit))>>

\* Every byte value the declarations below mention or the inputs contain.
Byte ==
    {"a", "b", "c", "e", "i", ";", " ", "/", "\n", "r", "#", "\"", "\\", "{", "z",
     "[", "]", ",", "(", ")", ":", "=", "-", "l", "n", "t", "x", "y"}

\* A negated class [^...].
AnyBut(S) == Chr(Byte \ S)

(***************************************************************************)
(* The DFA.  A state of the determinised automaton is the residual of each *)
(* pattern after the bytes read so far (res) together with the ids of the  *)
(* patterns that matched BEFORE the last byte (mat): regex_automata delays *)
(* every match by one transition, so that a start state is never a match   *)
(* state.  With MatchKind::All the pattern ids of a match state are kept   *)
(* in ascending order and no pattern is dropped once another has matched.  *)
(***************************************************************************)
RECURSIVE Nullable(_)
Nullable(r) ==
    CASE r[1] = "empty" -> FALSE
      [] r[1] = "eps" -> TRUE
      [] r[1] = "chr" -> FALSE
      [] r[1] = "cat" -> Nullable(r[2]) /\ Nullable(r[3])
      [] r[1] = "alt" -> Nullable(r[2]) \/ Nullable(r[3])
      [] r[1] = "star" -> TRUE

RECURSIVE IsEmptyLang(_)
IsEmptyLang(r) ==
    CASE r[1] = "empty" -> TRUE
      [] r[1] = "eps" -> FALSE
      [] r[1] = "chr" -> r[2] = {}
      [] r[1] = "cat" -> IsEmptyLang(r[2]) \/ IsEmptyLang(r[3])
      [] r[1] = "alt" -> IsEmptyLang(r[2]) /\ IsEmptyLang(r[3])
      [] r[1] = "star" -> FALSE

RECURSIVE Deriv(_, _)
Deriv(r, b) ==
    CASE r[1] = "empty" -> Empty
      [] r[1] = "eps" -> Empty
      [] r[1] = "chr" -> IF b \in r[2] THEN Eps ELSE Empty
      [] r[1] = "cat" ->
            IF Nullable(r[2])
            THEN Alt(Cat(Deriv(r[2], b), r[3]), Deriv(r[3], b))
            ELSE Cat(Deriv(r[2], b), r[3])
      [] r[1] = "alt" -> Alt(Deriv(r[2], b), Deriv(r[3], b))
      [] r[1] = "star" -> Cat(Deriv(r[2], b), r)

\* The ids (0-based, ascending) of the patterns whose residual accepts the
\* empty string.
RECURSIVE MatchIds(_, _)
MatchIds(res, p) ==
    IF p >= Len(res) THEN <<>>
    ELSE (IF Nullable(res[p + 1]) THEN <<p>> ELSE <<>>) \o MatchIds(res, p + 1)

\* dfa.start_state(anchored): no byte read, never a match state.
start_state(dfa) == [res |-> dfa, mat |-> <<>>]

\* dfa.next_state(state, b)
next_state(state, b) ==
    [res |-> [p \in 1..Len(state.res) |-> Deriv(state.res[p], b)],
     mat |-> MatchIds(state.res, 0)]

\* dfa.next_eoi_state(state)
next_eoi_state(state) ==
    [res |-> [p \in 1..Len(state.res) |-> Empty],
     mat |-> MatchIds(state.res, 0)]

is_match_state(state) == Len(state.mat) > 0

is_dead_state(state) ==
    /\ Len(state.mat) = 0
    /\ \A p \in 1..Len(state.res) : IsEmptyLang(state.res[p])

match_pattern(state, index) == state.mat[index + 1]

(***************************************************************************)
(* src/src/lib.rs: dfa_search_next.  None is <<>>, Some((pat, len)) is     *)
(* <<pat, len>>.                                                           *)
(***************************************************************************)
None == <<>>
Some(x) == <<x>>

\* Mutation of search_loop: the first accepting position ends the search.
RECURSIVE search_loop_first(_, _, _, _)
search_loop_first(input, i, state, matched) ==
    IF i >= Len(input) THEN [state |-> state, matched |-> matched, dead |-> FALSE]
    ELSE LET s == next_state(state, input[i + 1])
         IN  IF is_match_state(s)
             THEN [state |-> s, matched |-> [state |-> s, len |-> i], dead |-> TRUE]
             ELSE IF is_dead_state(s)
             THEN [state |-> s, matched |-> matched, dead |-> TRUE]
             ELSE search_loop_first(input, i + 1, s, matched)

\* Mutation of search_loop: the position recorded for a match state entered
\* on the byte at index i is i + 1.
RECURSIVE search_loop_next(_, _, _, _)
search_loop_next(input, i, state, matched) ==
    IF i >= Len(input) THEN [state |-> state, matched |-> matched, dead |-> FALSE]
    ELSE LET s == next_state(state, input[i + 1])
         IN  IF is_match_state(s)
             THEN search_loop_next(input, i + 1, s, [state |-> s, len |-> i + 1])
             ELSE IF is_dead_state(s)
             THEN [state |-> s, matched |-> matched, dead |-> TRUE]
             ELSE search_loop_next(input, i + 1, s, matched)

\* The for loop over the bytes from index i on; `dead` is the break.
RECURSIVE search_loop(_, _, _, _)
search_loop(input, i, state, matched) ==
    IF i >= Len(input) THEN [state |-> state, matched |-> matched, dead |-> FALSE]
    ELSE LET s == next_state(state, input[i + 1])
         IN  IF is_match_state(s)
             THEN search_loop(input, i + 1, s, [state |-> s, len |-> i])
             ELSE IF is_dead_state(s)
             THEN [state |-> s, matched |-> matched, dead |-> TRUE]
             ELSE search_loop(input, i + 1, s, matched)

\* Mutation of dfa_search_next: the last pattern of the match state.
dfa_search_next_lastpat(dfa, input) ==
    LET start == start_state(dfa)
        l == search_loop(input, 0, start, [state |-> start, len |-> 0])
        eoi == next_eoi_state(l.state)
        matched == IF ~l.dead /\ is_match_state(eoi)
                   THEN [state |-> eoi, len |-> Len(input)]
                   ELSE l.matched
    IN  IF matched.len # 0
        THEN <<match_pattern(matched.state, Len(matched.state.mat) - 1), matched.len>>
        ELSE None

\* Mutation of dfa_search_next: a match state is enough, whatever its length.
dfa_search_next_zero(dfa, input) ==
    LET start == start_state(dfa)
        l == search_loop(input, 0, start, [state |-> start, len |-> 0])
        eoi == next_eoi_state(l.state)
        matched == IF ~l.dead /\ is_match_state(eoi)
                   THEN [state |-> eoi, len |-> Len(input)]
                   ELSE l.matched
    IN  IF is_match_state(matched.state)
        THEN <<match_pattern(matched.state, 0), matched.len>>
        ELSE None

dfa_search_next(dfa, input) ==
    LET start == start_state(dfa)
        l == search_loop(input, 0, start, [state |-> start, len |-> 0])
        eoi == next_eoi_state(l.state)
        matched == IF ~l.dead /\ is_match_state(eoi)
                   THEN [state |-> eoi, len |-> Len(input)]
                   ELSE l.matched
    IN  IF matched.len # 0
        THEN <<match_pattern(matched.state, 0), matched.len>>
        ELSE None

(***************************************************************************)
(* Declarations: the enums the derive macro is applied to.  A variant is   *)
(* its pattern, whether it has a field for the matched text, and whether   *)
(* it has #[lexer(more = ...)].  Literals are shortened ("import" is "ii",  *)
(* "\begin" is "\b") so that short inputs reach every arm.                 *)
(***************************************************************************)
Variant(name, pat, text, more) ==
    [name |-> name, pat |-> pat, text |-> text, more |-> more]

\* tests/issues.rs test_315
Token315 ==
    [variants |-> << Variant("A", escape(<<"a">>), FALSE, FALSE),
                     Variant("B", escape(<<"b">>), FALSE, FALSE),
                     Variant("Abc", Cat(Star(Chr({"a", "b"})), Chr({"c"})), FALSE, FALSE) >>,
     skip_regexes |-> <<>>,
     alphabet |-> {"a", "b", "c"}]

\* tests/issues.rs test_279
Token279 ==
    [variants |-> << Variant("Backslash", escape(<<"\\">>), FALSE, FALSE),
                     Variant("DoubleBackslash", escape(<<"\\", "\\">>), FALSE, FALSE),
                     Variant("EnvironmentBegin", escape(<<"\\", "b">>), FALSE, FALSE),
                     Variant("EnvironmentEnd", escape(<<"\\", "e">>), FALSE, FALSE),
                     Variant("DocumentBegin", escape(<<"\\", "b", "{", "e">>), FALSE, FALSE),
                     Variant("MacroName", Cat(Chr({"\\"}), Plus(Chr({"b", "e"}))), FALSE, FALSE) >>,
     skip_regexes |-> <<>>,
     alphabet |-> {"\\", "b", "e", "{"}]

\* tests/issues.rs test_349
Foo349 ==
    [variants |-> << Variant("Foo", escape(<<"a", "a", "b">>), FALSE, FALSE) >>,
     skip_regexes |-> <<>>,
     alphabet |-> {"a", "b", "z"}]

\* tests/simple.rs, the variants without a hook, with both skip regexes.
TokenSimple ==
    [variants |-> << Variant("Import", escape(<<"i", "i">>), FALSE, FALSE),
                     Variant("Semi", escape(<<";">>), FALSE, FALSE),
                     Variant("Ident", Plus(Chr({"i"})), TRUE, FALSE) >>,
     skip_regexes |-> << Cat(escape(<<"/", "/">>), Star(AnyBut({"\n"}))),
                         Plus(Chr({" ", "\n"})) >>,
     alphabet |-> {"i", ";", "/", "\n"}]

\* tests/simple.rs, RawStr with #[lexer(more = end_raw_str)].
TokenRawStr ==
    [variants |-> << Variant("Semi", escape(<<";">>), FALSE, FALSE),
                     Variant("RawStr", Cat(Chr({"r"}), Cat(Star(Chr({"#"})), Chr({"\""}))),
                             TRUE, TRUE) >>,
     skip_regexes |-> <<>>,
     alphabet |-> {"r", "#", "\"", ";"}]

\* A unit variant and a text variant that both carry a hook.
TokenHooked ==
    [variants |-> << Variant("Open", escape(<<"a">>), FALSE, TRUE),
                     Variant("Body", Plus(Chr({"b"})), TRUE, TRUE) >>,
     skip_regexes |-> << Plus(Chr({" "})) >>,
     alphabet |-> {"a", "b", " "}]

\* A token pattern and a skip pattern that both accept the empty string.
TokenEmpty ==
    [variants |-> << Variant("As", Star(Chr({"a"})), TRUE, FALSE),
                     Variant("B", escape(<<"b">>), FALSE, FALSE) >>,
     skip_regexes |-> << Star(Chr({" ", "b"})) >>,
     alphabet |-> {"a", "b", " ", "z"}]

DeclNames ==
    {"Token315", "Token279", "Foo349", "TokenSimple", "TokenRawStr", "TokenHooked",
     "TokenEmpty"}

Decl(n) ==
    CASE n = "Token315" -> Token315
      [] n = "Token279" -> Token279
      [] n = "Foo349" -> Foo349
      [] n = "TokenSimple" -> TokenSimple
      [] n = "TokenRawStr" -> TokenRawStr
      [] n = "TokenHooked" -> TokenHooked
      [] n = "TokenEmpty" -> TokenEmpty

\* derive_lexer_impl: one regex per variant in declaration order, then the
\* skip regexes.
RECURSIVE variant_regexes(_)
variant_regexes(vs) ==
    IF Len(vs) = 0 THEN <<>> ELSE <<Head(vs).pat>> \o variant_regexes(Tail(vs))

\* Mutation of regexes: the skip regexes come first in the pattern list.
regexes_skipfirst(d) == d.skip_regexes \o variant_regexes(d.variants)

regexes(d) == variant_regexes(d.variants) \o d.skip_regexes

HasMore(d) == \E k \in 1..Len(d.variants) : d.variants[k].more

(***************************************************************************)
(* The derive macro on the declaration: derive_lexer_impl.  An item is the *)
(* parsed DeriveInput: its kind, its attributes and its variants, each     *)
(* variant with its attributes and whether it has fields.                  *)
(***************************************************************************)
\* One attribute: #[regex(arg)], #[token(arg)], #[lexer(key = arg)], or an
\* attribute of another path, which the macro passes over. A lexer attribute
\* with several options is that many attributes, one option each:
\* parse_nested_meta visits the options in order and stops at the first error.
Attr(path, key, arg) == [path |-> path, key |-> key, arg |-> arg]

ItemVariant(name, attrs, fields) == [name |-> name, attrs |-> attrs, fields |-> fields]

Item(kind, attrs, variants) == [kind |-> kind, attrs |-> attrs, variants |-> variants]

\* What derive_lexer_impl returns: Err(message), with nothing generated, or
\* the pieces the expansion is generated from.
Failed(msg) ==
    [ok |-> FALSE, err |-> msg,
     decl |-> [variants |-> <<>>, skip_regexes |-> <<>>, alphabet |-> {}]]
Generated(variants, skip_regexes) ==
    [ok |-> TRUE, err |-> "",
     decl |-> [variants |-> variants, skip_regexes |-> skip_regexes, alphabet |-> Byte]]

\* The loop over item.attrs: the skip regexes in attribute order, or the
\* error of the first lexer option that is not skip.
RECURSIVE collect_skips(_, _)
collect_skips(attrs, skip_regexes) ==
    IF Len(attrs) = 0 THEN [err |-> "", val |-> skip_regexes]
    ELSE LET a == Head(attrs)
         IN  IF a.path = "lexer"
             THEN IF a.key = "skip"
                  THEN collect_skips(Tail(attrs), Append(skip_regexes, a.arg))
                  ELSE [err |-> "unsupported attribute", val |-> <<>>]
             ELSE collect_skips(Tail(attrs), skip_regexes)

\* The first loop over v.attrs: the hook the last more option names, or the
\* error of the first lexer option that is not more.
RECURSIVE parse_more(_, _)
parse_more(attrs, more) ==
    IF Len(attrs) = 0 THEN [err |-> "", val |-> more]
    ELSE LET a == Head(attrs)
         IN  IF a.path = "lexer"
             THEN IF a.key = "more"
                  THEN parse_more(Tail(attrs), Some(a.arg))
                  ELSE [err |-> "unsupported attribute", val |-> None]
             ELSE parse_more(Tail(attrs), more)

\* Mutation of parse_regex: a later regex or token attribute replaces the
\* earlier one.
RECURSIVE parse_regex_lastwins(_, _)
parse_regex_lastwins(attrs, regex) ==
    IF Len(attrs) = 0 THEN [err |-> "", val |-> regex]
    ELSE LET a == Head(attrs)
         IN  IF a.path = "regex"
             THEN parse_regex_lastwins(Tail(attrs), Some(a.arg))
             ELSE IF a.path = "token"
             THEN parse_regex_lastwins(Tail(attrs), Some(escape(a.arg)))
             ELSE parse_regex_lastwins(Tail(attrs), regex)

\* The second loop over v.attrs: the variant's pattern, a token escaped into
\* a regex, or the error of a second regex or token attribute.
RECURSIVE parse_regex(_, _)
parse_regex(attrs, regex) ==
    IF Len(attrs) = 0 THEN [err |-> "", val |-> regex]
    ELSE LET a == Head(attrs)
         IN  IF a.path \in {"regex", "token"}
             THEN LET r == IF a.path = "regex" THEN a.arg ELSE escape(a.arg)
                  IN  IF regex = None
                      THEN parse_regex(Tail(attrs), Some(r))
                      ELSE [err |-> "duplicated regex or token atrribute", val |-> None]
             ELSE parse_regex(Tail(attrs), regex)

\* The loop over e.variants: one match arm and one pattern per variant, in
\* declaration order, or the first error.
RECURSIVE variants_loop(_, _)
variants_loop(vs, done) ==
    IF Len(vs) = 0 THEN [err |-> "", val |-> done]
    ELSE LET v == Head(vs)
             more == parse_more(v.attrs, None)
             regex == parse_regex(v.attrs, None)
         IN  IF more.err # "" THEN [err |-> more.err, val |-> <<>>]
             ELSE IF regex.err # "" THEN [err |-> regex.err, val |-> <<>>]
             ELSE IF regex.val = None
             THEN [err |-> "missing a regex or token attribute", val |-> <<>>]
             ELSE variants_loop(Tail(vs),
                     Append(done, Variant(v.name, regex.val[1], v.fields,
                                          more.val # None)))

derive_lexer_impl(item) ==
    IF item.kind # "enum" THEN Failed("expect an enum")
    ELSE LET skips == collect_skips(item.attrs, <<>>)
         IN  IF skips.err # "" THEN Failed(skips.err)
             ELSE LET vs == variants_loop(item.variants, <<>>)
                  IN  IF vs.err # "" THEN Failed(vs.err)
                      ELSE Generated(vs.val, skips.val)

(***************************************************************************)
(* Continuation hooks: pure functions (matched, remaining) -> Option.      *)
(***************************************************************************)

RECURSIVE Reverse(_)
Reverse(s) == IF Len(s) = 0 THEN <<>> ELSE Reverse(Tail(s)) \o <<Head(s)>>

\* str::find: the least offset at which pat occurs in s, as an Option.
find(s, pat) ==
    LET at == {l \in 0..(Len(s) - Len(pat)) : SubSeq(s, l + 1, l + Len(pat)) = pat}
    IN  IF at = {} THEN None
        ELSE Some(CHOOSE l \in at : \A m \in at : l <= m)

\* tests/simple.rs end_raw_str
end_raw_str(matched, remaining) ==
    LET start == Reverse(Tail(matched))
        l == find(remaining, start)
    IN  IF l = None THEN None ELSE Some(l[1] + Len(start))

NoHook == [fn |-> "none", k |-> 0]

Hooks ==
    {[fn |-> "end_raw_str", k |-> 0], [fn |-> "fail", k |-> 0]}
        \cup {[fn |-> "const", k |-> k] : k \in 0..MaxExtra}

\* The call #more(&remaining[..len], &remaining[len..]) of the expansion.
call_more(h, matched, remaining) ==
    CASE h.fn = "end_raw_str" -> end_raw_str(matched, remaining)
      [] h.fn = "const" -> Some(h.k)
      [] OTHER -> None

(***************************************************************************)
(* The generated iterator.                                                 *)
(***************************************************************************)
VARIABLES
    decl,       \* the enum the iterator was derived for (a name in DeclNames)
    hook,       \* the function its `more` attributes name
    input,      \* self.input
    consumed,   \* self.consumed
    last,       \* what the latest call of next() returned
    trace,      \* the scan steps of the latest call of next(), in order
    spans,      \* every match consumed since lex() or the last reset, in order
    results,    \* the items next() returned since lex() or the last reset, in
                \* order; repeats of a final item are kept twice at most
    restarted,  \* the caller has set consumed back to 0 at least once
    DFA,        \* the static DFA: OnceLock<..> of the expansion
    inits,      \* how often the closure of DFA.get_or_init has run
    th,         \* the iterators driven by threads (SpecThreads)
    item,       \* the declaration handed to the derive macro (SpecDerive)
    derived,    \* what derive_lexer_impl returned for it
    probe,      \* one call of next() of the generated iterator
    scan,       \* one call of dfa_search_next, step by step (SpecScan)
    ind,        \* the TokenIterator of tests/indentation_sensitive.rs (SpecIndent)
    lay         \* the TokenIterator of tests/layout_rules.rs (SpecLayout)

vars == <<decl, hook, input, consumed, last, trace, spans, results, restarted,
          DFA, inits, th, item, derived, probe, scan, ind, lay>>

\* The parts of the program a specification does not run.
Unused == <<>>

\* The states of the OnceLock: nothing stored, one thread running the
\* closure, or the view stored.
Uninit == [state |-> "uninit", value |-> <<>>]
Running == [state |-> "running", value |-> <<>>]
Complete(v) == [state |-> "complete", value |-> v]

\* The closure of get_or_init: DFA::from_bytes(&__DFA_BYTES.0).unwrap().0, the
\* view over the bytes of the automaton that was built from the pattern list.
from_bytes(d) == regexes(d)

\* Mutation of get_or_init: the view is deserialised by every call.
get_or_init_always(cell, d) == [cell |-> Complete(from_bytes(d)), ran |-> 1]

\* DFA.get_or_init(closure) while no other thread is inside it: the stored
\* view, after running the closure if nothing was stored.
get_or_init(cell, d) ==
    IF cell.state = "complete" THEN [cell |-> cell, ran |-> 0]
    ELSE [cell |-> Complete(from_bytes(d)), ran |-> 1]

\* The items next() returns; a panic unwinds out of next() instead.
NotCalled == [kind |-> "none", start |-> 0, variant |-> -1, end |-> 0, text |-> <<>>]
EndOfSeq == [kind |-> "end", start |-> 0, variant |-> -1, end |-> 0, text |-> <<>>]
Panic == [kind |-> "panic", start |-> 0, variant |-> -1, end |-> 0, text |-> <<>>]
Err(offset) ==
    [kind |-> "error", start |-> offset, variant |-> -1, end |-> offset, text |-> <<>>]
Ok(start, variant, end, text) ==
    [kind |-> "token", start |-> start, variant |-> variant, end |-> end, text |-> text]

\* One scan step: where it began and what dfa_search_next returned
\* (pat = -1 and len = 0 for None).
Scan(start, m) ==
    [start |-> start,
     pat |-> IF m = None THEN -1 ELSE m[1],
     len |-> IF m = None THEN 0 ELSE m[2]]

Out(c, it, tr, sp) == [consumed |-> c, item |-> it, trace |-> tr, spans |-> sp]

\* The items returned so far, extended by one; a final item (end of sequence
\* or an error) that repeats is written down twice and no more.
Record(rs, it) ==
    IF /\ Len(rs) >= 2
       /\ it.kind # "token"
       /\ rs[Len(rs)] = it
       /\ rs[Len(rs) - 1] = it
    THEN rs
    ELSE Append(rs, it)

\* Mutation of variant_arm: `self.consumed += len` is missing.
variant_arm_noadvance(d, h, pat, len, start, remaining, tr, sp) ==
    LET v == d.variants[pat + 1]
        extra == IF v.more
                 THEN call_more(h, SubSeq(remaining, 1, len),
                                SubSeq(remaining, len + 1, Len(remaining)))
                 ELSE Some(0)
    IN  IF extra = None THEN Out(start, Err(start), tr, sp)
        ELSE LET len2 == len + extra[1]
             IN  IF v.text /\ len2 > Len(remaining)
                 THEN Out(start, Panic, tr, sp)
                 ELSE Out(start,
                          Ok(start, pat, start + len2,
                             IF v.text THEN SubSeq(remaining, 1, len2) ELSE <<>>),
                          tr,
                          Append(sp, [start |-> start, end |-> start + len2,
                                      skip |-> FALSE]))

\* Mutation of variant_arm: the cursor advances by the DFA match only, not
\* by what the hook added.
variant_arm_prelen(d, h, pat, len, start, remaining, tr, sp) ==
    LET v == d.variants[pat + 1]
        extra == IF v.more
                 THEN call_more(h, SubSeq(remaining, 1, len),
                                SubSeq(remaining, len + 1, Len(remaining)))
                 ELSE Some(0)
    IN  IF extra = None THEN Out(start, Err(start), tr, sp)
        ELSE LET len2 == len + extra[1]
             IN  IF v.text /\ len2 > Len(remaining)
                 THEN Out(start, Panic, tr, sp)
                 ELSE Out(start + len,
                          Ok(start, pat, start + len2,
                             IF v.text THEN SubSeq(remaining, 1, len2) ELSE <<>>),
                          tr,
                          Append(sp, [start |-> start, end |-> start + len2,
                                      skip |-> FALSE]))

\* Mutation of variant_arm: a failing hook reports the offset where the
\* DFA match ended.
variant_arm_erroff(d, h, pat, len, start, remaining, tr, sp) ==
    LET v == d.variants[pat + 1]
        extra == IF v.more
                 THEN call_more(h, SubSeq(remaining, 1, len),
                                SubSeq(remaining, len + 1, Len(remaining)))
                 ELSE Some(0)
    IN  IF extra = None THEN Out(start, Err(start + len), tr, sp)
        ELSE LET len2 == len + extra[1]
             IN  IF v.text /\ len2 > Len(remaining)
                 THEN Out(start, Panic, tr, sp)
                 ELSE Out(start + len2,
                          Ok(start, pat, start + len2,
                             IF v.text THEN SubSeq(remaining, 1, len2) ELSE <<>>),
                          tr,
                          Append(sp, [start |-> start, end |-> start + len2,
                                      skip |-> FALSE]))

\* Mutation of variant_arm: the variant is constructed before the hook runs,
\* from the DFA match alone.
variant_arm_textfirst(d, h, pat, len, start, remaining, tr, sp) ==
    LET v == d.variants[pat + 1]
        extra == IF v.more
                 THEN call_more(h, SubSeq(remaining, 1, len),
                                SubSeq(remaining, len + 1, Len(remaining)))
                 ELSE Some(0)
    IN  IF extra = None THEN Out(start, Err(start), tr, sp)
        ELSE LET len2 == len + extra[1]
             IN  IF v.text /\ len2 > Len(remaining)
                 THEN Out(start, Panic, tr, sp)
                 ELSE Out(start + len2,
                          Ok(start, pat, start + len2,
                             IF v.text THEN SubSeq(remaining, 1, len) ELSE <<>>),
                          tr,
                          Append(sp, [start |-> start, end |-> start + len2,
                                      skip |-> FALSE]))

\* The arm `#i => { #more #construct }` of variant v, then
\* `self.consumed += len; return Some(Ok((start, t, start + len)))`.
variant_arm(d, h, pat, len, start, remaining, tr, sp) ==
    LET v == d.variants[pat + 1]
        extra == IF v.more
                 THEN call_more(h, SubSeq(remaining, 1, len),
                                SubSeq(remaining, len + 1, Len(remaining)))
                 ELSE Some(0)
    IN  IF extra = None THEN Out(start, Err(start), tr, sp)
        ELSE LET len2 == len + extra[1]
             IN  IF v.text /\ len2 > Len(remaining)
                 THEN Out(start, Panic, tr, sp)
                 ELSE Out(start + len2,
                          Ok(start, pat, start + len2,
                             IF v.text THEN SubSeq(remaining, 1, len2) ELSE <<>>),
                          tr,
                          Append(sp, [start |-> start, end |-> start + len2,
                                      skip |-> FALSE]))

\* Mutation of next_loop: the skip arm yields the match like a token.
RECURSIVE next_loop_yieldskip(_, _, _, _, _, _, _)
next_loop_yieldskip(dfa, d, h, inp, c, tr, sp) ==
    IF c > Len(inp) THEN Out(c, Panic, tr, sp)
    ELSE LET start == c
             remaining == SubSeq(inp, c + 1, Len(inp))
         IN  IF Len(remaining) = 0 THEN Out(c, EndOfSeq, tr, sp)
             ELSE LET m == dfa_search_next(dfa, remaining)
                      tr2 == Append(tr, Scan(start, m))
                  IN  IF m = None THEN Out(c, Err(start), tr2, sp)
                      ELSE IF m[1] < Len(d.variants)
                      THEN variant_arm(d, h, m[1], m[2], start, remaining, tr2, sp)
                      ELSE Out(c + m[2], Ok(start, m[1], start + m[2], <<>>), tr2,
                               Append(sp, [start |-> start, end |-> start + m[2],
                                           skip |-> FALSE]))

\* Mutation of next_loop: no match ends the sequence.
RECURSIVE next_loop_errend(_, _, _, _, _, _, _)
next_loop_errend(dfa, d, h, inp, c, tr, sp) ==
    IF c > Len(inp) THEN Out(c, Panic, tr, sp)
    ELSE LET start == c
             remaining == SubSeq(inp, c + 1, Len(inp))
         IN  IF Len(remaining) = 0 THEN Out(c, EndOfSeq, tr, sp)
             ELSE LET m == dfa_search_next(dfa, remaining)
                      tr2 == Append(tr, Scan(start, m))
                  IN  IF m = None THEN Out(c, EndOfSeq, tr2, sp)
                      ELSE IF m[1] < Len(d.variants)
                      THEN variant_arm(d, h, m[1], m[2], start, remaining, tr2, sp)
                      ELSE next_loop_errend(dfa, d, h, inp, c + m[2], tr2,
                                     Append(sp, [start |-> start, end |-> start + m[2],
                                                 skip |-> TRUE]))

\* Mutation of next_loop: no match yields an empty token and the
\* cursor stays.
RECURSIVE next_loop_unknown(_, _, _, _, _, _, _)
next_loop_unknown(dfa, d, h, inp, c, tr, sp) ==
    IF c > Len(inp) THEN Out(c, Panic, tr, sp)
    ELSE LET start == c
             remaining == SubSeq(inp, c + 1, Len(inp))
         IN  IF Len(remaining) = 0 THEN Out(c, EndOfSeq, tr, sp)
             ELSE LET m == dfa_search_next(dfa, remaining)
                      tr2 == Append(tr, Scan(start, m))
                  IN  IF m = None THEN Out(c, Ok(start, -1, start, <<>>), tr2, sp)
                      ELSE IF m[1] < Len(d.variants)
                      THEN variant_arm(d, h, m[1], m[2], start, remaining, tr2, sp)
                      ELSE next_loop_unknown(dfa, d, h, inp, c + m[2], tr2,
                                     Append(sp, [start |-> start, end |-> start + m[2],
                                                 skip |-> TRUE]))

\* Mutation of next_loop: no match yields the error and steps over one byte.
RECURSIVE next_loop_erradvance(_, _, _, _, _, _, _)
next_loop_erradvance(dfa, d, h, inp, c, tr, sp) ==
    IF c > Len(inp) THEN Out(c, Panic, tr, sp)
    ELSE LET start == c
             remaining == SubSeq(inp, c + 1, Len(inp))
         IN  IF Len(remaining) = 0 THEN Out(c, EndOfSeq, tr, sp)
             ELSE LET m == dfa_search_next(dfa, remaining)
                      tr2 == Append(tr, Scan(start, m))
                  IN  IF m = None THEN Out(c + 1, Err(start), tr2, sp)
                      ELSE IF m[1] < Len(d.variants)
                      THEN variant_arm(d, h, m[1], m[2], start, remaining, tr2, sp)
                      ELSE next_loop_erradvance(dfa, d, h, inp, c + m[2], tr2,
                                     Append(sp, [start |-> start, end |-> start + m[2],
                                                 skip |-> TRUE]))

\* The loop of next().
RECURSIVE next_loop(_, _, _, _, _, _, _)
next_loop(dfa, d, h, inp, c, tr, sp) ==
    IF c > Len(inp) THEN Out(c, Panic, tr, sp)
    ELSE LET start == c
             remaining == SubSeq(inp, c + 1, Len(inp))
         IN  IF Len(remaining) = 0 THEN Out(c, EndOfSeq, tr, sp)
             ELSE LET m == dfa_search_next(dfa, remaining)
                      tr2 == Append(tr, Scan(start, m))
                  IN  IF m = None THEN Out(c, Err(start), tr2, sp)
                      ELSE IF m[1] < Len(d.variants)
                      THEN variant_arm(d, h, m[1], m[2], start, remaining, tr2, sp)
                      ELSE next_loop(dfa, d, h, inp, c + m[2], tr2,
                                     Append(sp, [start |-> start, end |-> start + m[2],
                                                 skip |-> TRUE]))

\* All strings over alphabet A of length at most n.
RECURSIVE Strings(_, _)
Strings(A, n) ==
    IF n = 0 THEN {<<>>}
    ELSE LET shorter == Strings(A, n - 1)
         IN  shorter \cup {Append(s, ch) : s \in shorter, ch \in A}

\* Before the macro has run, and before the generated iterator is called.
NotDerived == Failed("not derived")
NoProbe == [input |-> <<>>, hook |-> NoHook, out |-> Out(0, NotCalled, <<>>, <<>>)]

\* The program is one derived enum and its hook; the first iterator is
\* Token::lex("").
Init ==
    /\ decl \in DeclNames
    /\ hook \in (IF HasMore(Decl(decl)) THEN Hooks ELSE {NoHook})
    /\ input = <<>>
    /\ consumed = 0
    /\ last = NotCalled
    /\ trace = <<>>
    /\ spans = <<>>
    /\ results = <<>>
    /\ restarted = FALSE
    /\ DFA = Uninit
    /\ inits = 0
    /\ th = <<>>
    /\ item = Item("enum", <<>>, <<>>)
    /\ derived = NotDerived
    /\ probe = NoProbe
    /\ scan = Unused
    /\ ind = Unused
    /\ lay = Unused

\* Token::lex(input): a new iterator over input, in place of the first one
\* while that is unused.
lex ==
    /\ last.kind = "none"
    /\ Len(input) = 0
    /\ \E inp \in Strings(Decl(decl).alphabet, MaxLen) :
        /\ inp # input
        /\ input' = inp
    /\ consumed' = 0
    /\ last' = NotCalled
    /\ trace' = <<>>
    /\ spans' = <<>>
    /\ results' = <<>>
    /\ UNCHANGED <<decl, hook, restarted, DFA, inits, th, item, derived, probe, scan, ind, lay>>

\* Mutation of IteratorNext: the call after an error ends the sequence.
IteratorNext_errthenend ==
    /\ last.kind # "panic"
    /\ LET g == get_or_init(DFA, Decl(decl))
           dfa == g.cell.value
           r == IF last.kind = "error" THEN Out(consumed, EndOfSeq, <<>>, spans)
                ELSE next_loop(dfa, Decl(decl), hook, input, consumed, <<>>, spans)
       IN  /\ DFA' = g.cell
           /\ inits' = inits + g.ran
           /\ consumed' = r.consumed
           /\ last' = r.item
           /\ trace' = r.trace
           /\ spans' = r.spans
           /\ results' = Record(results, r.item)
    /\ UNCHANGED <<decl, hook, input, restarted, th, item, derived, probe, scan, ind, lay>>

\* One call of next() by the caller; a panic ends the iteration.
IteratorNext ==
    /\ last.kind # "panic"
    /\ LET g == get_or_init(DFA, Decl(decl))
           dfa == g.cell.value
           r == next_loop(dfa, Decl(decl), hook, input, consumed, <<>>, spans)
       IN  /\ DFA' = g.cell
           /\ inits' = inits + g.ran
           /\ consumed' = r.consumed
           /\ last' = r.item
           /\ trace' = r.trace
           /\ spans' = r.spans
           /\ results' = Record(results, r.item)
    /\ UNCHANGED <<decl, hook, input, restarted, th, item, derived, probe, scan, ind, lay>>

\* benches/bench.rs: `tokens.consumed = 0` starts another pass.
Reset ==
    /\ last.kind \notin {"none", "panic"}
    /\ consumed' = 0
    /\ last' = NotCalled
    /\ trace' = <<>>
    /\ spans' = <<>>
    /\ results' = <<>>
    /\ restarted' = TRUE
    /\ UNCHANGED <<decl, hook, input, DFA, inits, th, item, derived, probe, scan, ind, lay>>

Next == lex \/ IteratorNext \/ Reset

Spec == Init /\ [][Next]_vars

(***************************************************************************)
(* Iterators driven by threads. Each thread owns one iterator; the threads *)
(* share the static DFA cell. A call of next() is get_or_init on the cell  *)
(* and then the loop over the view it returned.                            *)
(***************************************************************************)
MaxThreadLen == 2

Threads == {1, 2}

ThreadDecls == {"TokenSimple", "TokenHooked"}

\* Token::lex(inp) held by a thread that has not called next() yet.
NewIter(inp) ==
    [pc |-> "idle", input |-> inp, consumed |-> 0, dfa |-> <<>>, results |-> <<>>]

InitThreads ==
    /\ decl \in ThreadDecls
    /\ hook \in (IF HasMore(Decl(decl)) THEN Hooks ELSE {NoHook})
    /\ input = <<>>
    /\ consumed = 0
    /\ last = NotCalled
    /\ trace = <<>>
    /\ spans = <<>>
    /\ results = <<>>
    /\ restarted = FALSE
    /\ DFA = Uninit
    /\ inits = 0
    /\ th \in [Threads -> {NewIter(inp) : inp \in Strings(Decl(decl).alphabet, MaxThreadLen)}]
    /\ item = Item("enum", <<>>, <<>>)
    /\ derived = NotDerived
    /\ probe = NoProbe
    /\ scan = Unused
    /\ ind = Unused
    /\ lay = Unused

iter_vars ==
    <<decl, hook, input, consumed, last, trace, spans, results, restarted,
      item, derived, probe, scan, ind, lay>>

\* Mutation of GetStored: the cell is read as soon as some thread has begun
\* to initialise it.
GetStored_early(t) ==
    /\ th[t].pc = "idle"
    /\ DFA.state # "uninit"
    /\ th' = [th EXCEPT ![t].pc = "scan", ![t].dfa = DFA.value]
    /\ UNCHANGED <<iter_vars, DFA, inits>>

\* get_or_init, the view is stored: next() goes on with it.
GetStored(t) ==
    /\ th[t].pc = "idle"
    /\ DFA.state = "complete"
    /\ th' = [th EXCEPT ![t].pc = "scan", ![t].dfa = DFA.value]
    /\ UNCHANGED <<iter_vars, DFA, inits>>

\* Mutation of InitBegin: a thread runs the closure whenever no view is
\* stored yet.
InitBegin_racy(t) ==
    /\ th[t].pc = "idle"
    /\ DFA.state # "complete"
    /\ DFA' = Running
    /\ inits' = inits + 1
    /\ th' = [th EXCEPT ![t].pc = "init"]
    /\ UNCHANGED iter_vars

\* get_or_init, nothing is stored and no thread is initialising: this thread
\* becomes the one that runs the closure. A thread that finds another one
\* running it waits.
InitBegin(t) ==
    /\ th[t].pc = "idle"
    /\ DFA.state = "uninit"
    /\ DFA' = Running
    /\ inits' = inits + 1
    /\ th' = [th EXCEPT ![t].pc = "init"]
    /\ UNCHANGED iter_vars

\* The closure returns: the view is stored and get_or_init returns it.
InitEnd(t) ==
    /\ th[t].pc = "init"
    /\ DFA' = Complete(from_bytes(Decl(decl)))
    /\ th' = [th EXCEPT ![t].pc = "scan", ![t].dfa = from_bytes(Decl(decl))]
    /\ UNCHANGED <<iter_vars, inits>>

\* Mutation of ScanStep: the cursor is one static shared by the iterators.
ScanStep_shared(t) ==
    /\ th[t].pc = "scan"
    /\ LET r == next_loop(th[t].dfa, Decl(decl), hook, th[t].input,
                          th[1].consumed, <<>>, <<>>)
       IN  th' = [u \in Threads |->
                    IF u = t
                    THEN [th[u] EXCEPT !.consumed = r.consumed,
                                       !.results = Append(th[u].results, r.item),
                                       !.pc = IF r.item.kind = "token"
                                              THEN "idle" ELSE "done"]
                    ELSE [th[u] EXCEPT !.consumed = r.consumed]]
    /\ UNCHANGED <<iter_vars, DFA, inits>>

\* The loop of next() over the thread's own iterator; the thread stops
\* calling next() at the first item that is not a token.
ScanStep(t) ==
    /\ th[t].pc = "scan"
    /\ LET r == next_loop(th[t].dfa, Decl(decl), hook, th[t].input,
                          th[t].consumed, <<>>, <<>>)
       IN  th' = [th EXCEPT ![t].consumed = r.consumed,
                            ![t].results = Append(th[t].results, r.item),
                            ![t].pc = IF r.item.kind = "token"
                                      THEN "idle" ELSE "done"]
    /\ UNCHANGED <<iter_vars, DFA, inits>>

NextThreads ==
    \E t \in Threads : GetStored(t) \/ InitBegin(t) \/ InitEnd(t) \/ ScanStep(t)

SpecThreads == InitThreads /\ [][NextThreads]_vars

(***************************************************************************)
(* The macro applied to a declaration, and the iterator it generates       *)
(* called once.                                                            *)
(***************************************************************************)
MaxItemSize == 5
MaxProbeLen == 2

\* The attribute arguments the declarations are written with: the regexes
\* "a+", " +" and "z", the token "b" and the hook f.
RegexA == Plus(Chr({"a"}))
TokenB == <<"b">>
SkipSp == Plus(Chr({" "}))
SkipZ == Chr({"z"})
ProbeAlphabet == {"a", "b", " ", "z"}

EnumAttrChoices ==
    {Attr("lexer", "skip", SkipSp), Attr("lexer", "skip", SkipZ),
     Attr("lexer", "more", <<"f">>), Attr("derive", "", <<>>)}

VariantAttrChoices ==
    {Attr("regex", "", RegexA), Attr("token", "", TokenB),
     Attr("lexer", "more", <<"f">>), Attr("lexer", "skip", SkipSp)}

\* The attributes, variants and fields written in declaration i.
RECURSIVE VariantsSize(_)
VariantsSize(vs) ==
    IF Len(vs) = 0 THEN 0
    ELSE 1 + Len(Head(vs).attrs) + (IF Head(vs).fields THEN 1 ELSE 0)
           + VariantsSize(Tail(vs))

Size(i) == Len(i.attrs) + VariantsSize(i.variants)

\* The declarations that are i with one more attribute on the item, one more
\* unit variant, or one more attribute or a field on the last variant.
Longer(i) ==
    {Item(i.kind, Append(i.attrs, a), i.variants) : a \in EnumAttrChoices}
    \cup (IF i.kind # "enum" THEN {}
          ELSE {Item(i.kind, i.attrs,
                     Append(i.variants, ItemVariant(Len(i.variants) + 1, <<>>, FALSE)))})
    \cup (IF Len(i.variants) = 0 THEN {}
          ELSE LET n == Len(i.variants)
                   v == i.variants[n]
               IN  {Item(i.kind, i.attrs,
                         [i.variants EXCEPT
                             ![n] = ItemVariant(v.name, Append(v.attrs, a), v.fields)]) :
                        a \in VariantAttrChoices}
                   \cup (IF v.fields THEN {}
                         ELSE {Item(i.kind, i.attrs,
                                    [i.variants EXCEPT
                                        ![n] = ItemVariant(v.name, v.attrs, TRUE)])}))

InitDerive ==
    /\ decl = "TokenSimple"
    /\ hook = NoHook
    /\ input = <<>>
    /\ consumed = 0
    /\ last = NotCalled
    /\ trace = <<>>
    /\ spans = <<>>
    /\ results = <<>>
    /\ restarted = FALSE
    /\ DFA = Uninit
    /\ inits = 0
    /\ th = <<>>
    /\ item \in {Item("enum", <<>>, <<>>), Item("struct", <<>>, <<>>)}
    /\ derived = NotDerived
    /\ probe = NoProbe
    /\ scan = Unused
    /\ ind = Unused
    /\ lay = Unused

run_vars ==
    <<decl, hook, input, consumed, last, trace, spans, results, restarted, DFA,
      inits, th, scan, ind, lay>>

\* The declaration is written, piece by piece, before the macro runs on it.
Write ==
    /\ derived = NotDerived
    /\ Size(item) < MaxItemSize
    /\ item' \in Longer(item)
    /\ UNCHANGED <<run_vars, derived, probe>>

\* #[derive(Lexer)] on the item.
Derive ==
    /\ derived = NotDerived
    /\ derived' = derive_lexer_impl(item)
    /\ UNCHANGED <<run_vars, item, probe>>

\* The first call of next() on lex(w) of the generated iterator, the hook f
\* being one that adds nothing or one that fails.
Probe ==
    /\ derived.ok
    /\ probe = NoProbe
    /\ \E w \in Strings(ProbeAlphabet, MaxProbeLen) :
       \E h \in {[fn |-> "const", k |-> 0], [fn |-> "fail", k |-> 0]} :
            probe' = [input |-> w, hook |-> h,
                      out |-> next_loop(from_bytes(derived.decl), derived.decl, h,
                                        w, 0, <<>>, <<>>)]
    /\ UNCHANGED <<run_vars, item, derived>>

NextDerive == Write \/ Derive \/ Probe

SpecDerive == InitDerive /\ [][NextDerive]_vars

(***************************************************************************)
(* src/src/lib.rs: one call of dfa_search_next(dfa, s), a transition at a   *)
(* time.  scan.i is the index of the next byte of the for loop, scan.path   *)
(* the states next_state returned, scan.eois the states next_eoi_state      *)
(* returned, in order.                                                      *)
(***************************************************************************)
MaxScanLen == 4

gen_vars ==
    <<hook, input, consumed, last, trace, spans, results, restarted, DFA, inits,
      th, item, derived, probe>>

\* The locals of dfa_search_next at the head of the 'search block.
ScanCall(s) ==
    LET start == start_state(from_bytes(Decl(decl)))
    IN  [input |-> s, pc |-> "loop", i |-> 0, state |-> start,
         matched |-> [state |-> start, len |-> 0],
         path |-> <<>>, eois |-> <<>>, result |-> None]

\* The scan step is called on a non-empty remaining slice.
InitScan ==
    /\ decl \in DeclNames
    /\ hook = NoHook
    /\ input = <<>>
    /\ consumed = 0
    /\ last = NotCalled
    /\ trace = <<>>
    /\ spans = <<>>
    /\ results = <<>>
    /\ restarted = FALSE
    /\ DFA = Uninit
    /\ inits = 0
    /\ th = <<>>
    /\ item = Item("enum", <<>>, <<>>)
    /\ derived = NotDerived
    /\ probe = NoProbe
    /\ scan \in {ScanCall(s) : s \in Strings(Decl(decl).alphabet, MaxScanLen) \ {<<>>}}
    /\ ind = Unused
    /\ lay = Unused

\* Mutation of ScanByte: a dead state does not leave the loop.
ScanByte_nobreak ==
    /\ scan.pc = "loop"
    /\ scan.i < Len(scan.input)
    /\ LET s == next_state(scan.state, scan.input[scan.i + 1])
       IN  scan' = [scan EXCEPT
                !.state = s,
                !.path = Append(@, s),
                !.matched = IF is_match_state(s) THEN [state |-> s, len |-> scan.i]
                            ELSE @,
                !.i = @ + 1]
    /\ UNCHANGED <<decl, gen_vars, ind, lay>>

\* One iteration of the for loop over the bytes.
ScanByte ==
    /\ scan.pc = "loop"
    /\ scan.i < Len(scan.input)
    /\ LET s == next_state(scan.state, scan.input[scan.i + 1])
       IN  scan' = [scan EXCEPT
                !.state = s,
                !.path = Append(@, s),
                !.matched = IF is_match_state(s) THEN [state |-> s, len |-> scan.i]
                            ELSE @,
                !.pc = IF ~is_match_state(s) /\ is_dead_state(s) THEN "return"
                       ELSE @,
                !.i = IF ~is_match_state(s) /\ is_dead_state(s) THEN @ ELSE @ + 1]
    /\ UNCHANGED <<decl, gen_vars, ind, lay>>

\* The loop ran out of bytes: the end-of-input transition.
ScanEoi ==
    /\ scan.pc = "loop"
    /\ scan.i >= Len(scan.input)
    /\ LET s == next_eoi_state(scan.state)
       IN  scan' = [scan EXCEPT
                !.state = s,
                !.eois = Append(@, s),
                !.matched = IF is_match_state(s)
                            THEN [state |-> s, len |-> Len(scan.input)]
                            ELSE @,
                !.pc = "return"]
    /\ UNCHANGED <<decl, gen_vars, ind, lay>>

\* After the 'search block: the value returned.
ScanReturn ==
    /\ scan.pc = "return"
    /\ scan' = [scan EXCEPT
            !.result = IF scan.matched.len # 0
                       THEN <<match_pattern(scan.matched.state, 0), scan.matched.len>>
                       ELSE None,
            !.pc = "done"]
    /\ UNCHANGED <<decl, gen_vars, ind, lay>>

NextScan == ScanByte \/ ScanEoi \/ ScanReturn

SpecScan == InitScan /\ [][NextScan]_vars

(***************************************************************************)
(* tests/indentation_sensitive.rs: a TokenIterator that wraps the derived  *)
(* RawTokenIterator in a Peekable and turns line breaks into Indent and    *)
(* Dedent tokens.                                                          *)
(***************************************************************************)
MaxIndentWords == 4

\* [a-zA-Z_] and [a-zA-Z0-9_], as far as Byte has them.
IdentStart == {"a", "b", "c", "e", "i", "l", "n", "r", "t", "x", "y", "z"}
IdentContinue == IdentStart

RawTokenIndent ==
    [variants |-> << Variant("Indent", Cat(Chr({"\n"}), Star(Chr({" "}))), TRUE, FALSE),
                     Variant("Whitespace", Plus(Chr({" "})), TRUE, FALSE),
                     Variant("LBracket", escape(<<"[">>), FALSE, FALSE),
                     Variant("RBracket", escape(<<"]">>), FALSE, FALSE),
                     Variant("Comma", escape(<<",">>), FALSE, FALSE),
                     Variant("Identifier", Cat(Chr(IdentStart), Star(Chr(IdentContinue))),
                             TRUE, FALSE) >>,
     skip_regexes |-> << Cat(escape(<<"/", "/">>), Star(AnyBut({"\n"}))) >>,
     alphabet |-> {"\n", " ", "[", "]", ",", "a", "/"}]

\* The name of the variant of a raw item, or "error" or "end".
RawName(d, raw) ==
    IF raw.kind = "token" THEN d.variants[raw.variant + 1].name ELSE raw.kind

\* RawToken::lex(input).peekable()
Peekable == [consumed |-> 0, peeked |-> None]

\* The next item of the RawTokenIterator of declaration d at offset c.
RawNext(d, inp, c) == next_loop(from_bytes(d), d, NoHook, inp, c, <<>>, <<>>)

\* Peekable::next and Peekable::peek after the inner next() returned o.
Taken(o) == [item |-> o.item, iter |-> [consumed |-> o.consumed, peeked |-> None]]
Kept(o) == [consumed |-> o.consumed, peeked |-> Some(o.item)]

\* Peekable::next: the peeked item if there is one, else the inner next().
PeekableNext(d, inp, p) ==
    IF p.peeked # None
    THEN [item |-> p.peeked[1], iter |-> [consumed |-> p.consumed, peeked |-> None]]
    ELSE Taken(RawNext(d, inp, p.consumed))

\* Peekable::peek: the inner next() is called once and its item kept.
PeekablePeek(d, inp, p) ==
    IF p.peeked # None THEN p ELSE Kept(RawNext(d, inp, p.consumed))

\* The items of the wrapping iterators: Some(Ok(tok)), Some(Err(e(at))),
\* None, and nothing returned yet.
WOk(tok) == [kind |-> "ok", tok |-> tok, at |-> 0]
WErr(e, at) == [kind |-> "err", tok |-> e, at |-> at]
WEnd == [kind |-> "end", tok |-> "", at |-> 0]
WNone == [kind |-> "none", tok |-> "", at |-> 0]

\* What one arm of the match did: whether it returned, the fields of the
\* iterator after it, and the item returned.
Arm(ret, it, res) == [ret |-> ret, it |-> it, item |-> res]

Pop(s) == IF Len(s) = 0 THEN s ELSE SubSeq(s, 1, Len(s) - 1)
LastOr0(s) == IF Len(s) = 0 THEN 0 ELSE s[Len(s)]

\* The inner loop of Ordering::Less: pop levels until one matches.
RECURSIVE dedent_loop(_, _, _)
dedent_loop(it, l, level) ==
    IF level > LastOr0(it.intents)
    THEN Arm(TRUE,
             [it EXCEPT !.intents = Append(Pop(it.intents), level),
                        !.queue = it.queue \o <<"Dedent", "Indent">>],
             WErr("MisalignedIndentation", l))
    ELSE IF level = LastOr0(it.intents)
    THEN Arm(TRUE, it, WOk("Dedent"))
    ELSE dedent_loop([it EXCEPT !.intents = Pop(it.intents),
                                !.queue = Append(it.queue, "Dedent")],
                     l, level)

\* The Indent arm outside brackets, pk being self.inner after peek().
indent_level(it, l, level, pk) ==
    IF RawName(RawTokenIndent, pk.peeked[1]) \in {"Indent", "Whitespace"}
    THEN Arm(FALSE, [it EXCEPT !.inner = pk], WNone)
    ELSE IF level > LastOr0(it.intents)
    THEN Arm(TRUE, [it EXCEPT !.inner = pk, !.intents = Append(@, level)], WOk("Indent"))
    ELSE IF level = LastOr0(it.intents)
    THEN Arm(FALSE, [it EXCEPT !.inner = pk], WNone)
    ELSE dedent_loop([it EXCEPT !.inner = pk, !.intents = Pop(@)], l, level)

\* Mutation of indent_arm: line breaks count inside brackets too.
indent_arm_inbrackets(inp, it, l, indent) ==
    indent_level(it, l, Len(indent) - 1, PeekablePeek(RawTokenIndent, inp, it.inner))

\* The arm RawToken::Indent(indent) of the token at offset l.
indent_arm(inp, it, l, indent) ==
    IF it.brackets > 0 THEN Arm(FALSE, it, WNone)
    ELSE indent_level(it, l, Len(indent) - 1,
                      PeekablePeek(RawTokenIndent, inp, it.inner))

\* The arm of one raw item of the match in TokenIterator::next, name being
\* the variant of the item.
indent_match(inp, it, raw, name) ==
    CASE name = "error" -> Arm(TRUE, it, WErr("LexicalError", raw.start))
      [] name = "Whitespace" ->
            IF raw.start = 0
            THEN Arm(TRUE, [it EXCEPT !.intents = Append(@, Len(raw.text))],
                     WOk("Indent"))
            ELSE Arm(FALSE, it, WNone)
      [] name = "Indent" -> indent_arm(inp, it, raw.start, raw.text)
      [] name = "LBracket" ->
            Arm(TRUE, [it EXCEPT !.brackets = @ + 1], WOk("LBracket"))
      [] name = "RBracket" ->
            Arm(TRUE, [it EXCEPT !.brackets = IF @ = 0 THEN 0 ELSE @ - 1],
                WOk("RBracket"))
      [] name = "Comma" -> Arm(TRUE, it, WOk("Comma"))
      [] name = "Identifier" -> Arm(TRUE, it, WOk("Identifier"))
      [] name = "end" ->
            IF Len(it.intents) > 0
            THEN Arm(TRUE,
                     [it EXCEPT !.intents = <<>>,
                                !.queue = @ \o [k \in 1..(Len(it.intents) - 1) |->
                                                    "Dedent"]],
                     WOk("Dedent"))
            ELSE Arm(TRUE, it, WEnd)

\* What one turn of the loop of next() read and did.
Turn(raw, name, it, a) ==
    [raw |-> name, start |-> raw.start, len |-> raw.end - raw.start,
     brackets |-> it.brackets,
     before |-> it.intents, after |-> a.it.intents, item |-> a.item,
     queued |-> a.it.queue]

\* The value of next() once an arm has returned.
Returned(it, res, log) == [it |-> it, item |-> res, log |-> log]

\* The loop of TokenIterator::next, entered with an empty queue: r is what
\* self.inner.next() returned in this turn and a what the arm of its item
\* did.
RECURSIVE indent_loop(_, _, _)
indent_turn(inp, it, log, r, a) ==
    IF a.ret
    THEN Returned(a.it, a.item,
                  Append(log, Turn(r.item, RawName(RawTokenIndent, r.item), it, a)))
    ELSE indent_loop(inp, a.it,
                     Append(log, Turn(r.item, RawName(RawTokenIndent, r.item), it, a)))

indent_read(inp, it, log, r) ==
    indent_turn(inp, it, log, r,
                indent_match(inp, [it EXCEPT !.inner = r.iter], r.item,
                             RawName(RawTokenIndent, r.item)))

indent_loop(inp, it, log) ==
    indent_read(inp, it, log, PeekableNext(RawTokenIndent, inp, it.inner))

\* TokenIterator::next
indent_next(inp, it) ==
    IF Len(it.queue) > 0
    THEN Returned([it EXCEPT !.queue = Tail(@)], WOk(Head(it.queue)), <<>>)
    ELSE indent_loop(inp, it, <<>>)

\* The pieces the inputs of the indentation test are made of.
IndentWords ==
    { <<"a">>, <<"[">>, <<"]">>, <<"/">>, <<" ">>, <<"\n">>, <<"\n", " ">>,
      <<"\n", " ", " ">>, <<"\n", " ", " ", " ">> }

\* Token::lex(input)
IndentLex(inp) ==
    [input |-> inp, words |-> 0,
     it |-> [inner |-> Peekable, intents |-> <<>>, brackets |-> 0, queue |-> <<>>],
     last |-> WNone, out |-> <<>>, log |-> <<>>]

InitIndent ==
    /\ decl = "TokenSimple"
    /\ hook = NoHook
    /\ input = <<>>
    /\ consumed = 0
    /\ last = NotCalled
    /\ trace = <<>>
    /\ spans = <<>>
    /\ results = <<>>
    /\ restarted = FALSE
    /\ DFA = Uninit
    /\ inits = 0
    /\ th = <<>>
    /\ item = Item("enum", <<>>, <<>>)
    /\ derived = NotDerived
    /\ probe = NoProbe
    /\ scan = Unused
    /\ ind = IndentLex(<<>>)
    /\ lay = Unused

\* The items returned so far, extended by one; a final item (None or a
\* lexical error) that the iterator repeats is written down once.
Emit(out, prev, it) ==
    IF it = prev /\ (it.kind = "end" \/ it.kind = "err") THEN out
    ELSE Append(out, it)

\* The input is written, piece by piece, before the iterator is used.
IndentType ==
    /\ ind.last = WNone
    /\ ind.words < MaxIndentWords
    /\ \E w \in IndentWords :
            ind' = [ind EXCEPT !.input = @ \o w, !.words = @ + 1,
                               !.it = IndentLex(ind.input \o w).it]
    /\ UNCHANGED <<decl, gen_vars, scan, lay>>

\* The iterator and what the test has collected, after a call returned r.
IndentCalled(i, r) ==
    [i EXCEPT !.it = r.it, !.last = r.item, !.log = r.log,
              !.out = Emit(i.out, i.last, r.item)]

\* One call of next() on the TokenIterator.
IndentNext ==
    /\ ind' = IndentCalled(ind, indent_next(ind.input, ind.it))
    /\ UNCHANGED <<decl, gen_vars, scan, lay>>

NextIndent == IndentType \/ IndentNext

SpecIndent == InitIndent /\ [][NextIndent]_vars

(***************************************************************************)
(* tests/layout_rules.rs: a TokenIterator that wraps the derived           *)
(* RawTokenIterator and inserts the virtual braces and semicolons of a     *)
(* layout rule.  A layout context is Let(c), Other(c) or Paren; col is 0   *)
(* for Paren, which has no column.                                         *)
(***************************************************************************)
MaxLayoutWords == 4

RawTokenLayout ==
    [variants |-> << Variant("Indent", Cat(Chr({"\n"}), Star(Chr({" "}))), TRUE, FALSE),
                     Variant("Whitespace", Plus(Chr({" "})), TRUE, FALSE),
                     Variant("ColonEqual", escape(<<":", "=">>), FALSE, FALSE),
                     Variant("Let", escape(<<"l", "e", "t">>), FALSE, FALSE),
                     Variant("In", escape(<<"i", "n">>), FALSE, FALSE),
                     Variant("By", escape(<<"b", "y">>), FALSE, FALSE),
                     Variant("LParen", escape(<<"(">>), FALSE, FALSE),
                     Variant("RParen", escape(<<")">>), FALSE, FALSE),
                     Variant("Identifier", Cat(Chr(IdentStart), Star(Chr(IdentContinue))),
                             TRUE, FALSE) >>,
     skip_regexes |-> << Cat(escape(<<"-", "-">>), Star(AnyBut({"\n"}))) >>,
     alphabet |-> {"\n", " ", ":", "=", "l", "e", "t", "i", "n", "b", "y", "(", ")",
                   "x", "-"}]

Layout(kind, c) == [kind |-> kind, col |-> c]
Paren == Layout("Paren", 0)

\* Mutation of column: a parenthesis has column 0.
column_paren0(l) == Some(l.col)

\* Layout::column
column(l) == IF l.kind = "Paren" THEN None ELSE Some(l.col)

\* Layout::with_column
with_column(l, c) == IF l.kind = "Paren" THEN l ELSE Layout(l.kind, c)

\* Mutation of is_paren: a let layout is taken for a parenthesis.
is_paren_let(l) == l.kind = "Let"

\* Layout::is_paren, Layout::is_let
is_paren(l) == l.kind = "Paren"
is_let(l) == l.kind = "Let"

\* self.layouts.last().and_then(|l| l.column())
LastColumn(layouts) ==
    IF Len(layouts) = 0 THEN None ELSE column(layouts[Len(layouts)])

\* Option<usize>: a < b, where None is below every Some.
OptLess(a, b) == b # None /\ (a = None \/ a[1] < b[1])

\* The predicate p of close_layouts_until holds of layout l.
Holds(p, l) == (p = "paren" /\ is_paren(l)) \/ (p = "let" /\ is_let(l))

Top(s) == s[Len(s)]

\* Mutation of close_layouts_until: a let or by popped on the way is not
\* closed by a VRBrace.
RECURSIVE close_layouts_until_silent(_, _)
close_layouts_until_silent(it, p) ==
    IF Len(it.layouts) = 0 THEN [it |-> it, found |-> FALSE]
    ELSE IF Holds(p, Top(it.layouts))
    THEN [it |-> [it EXCEPT !.layouts = Pop(@)], found |-> TRUE]
    ELSE close_layouts_until_silent([it EXCEPT !.layouts = Pop(@)], p)

\* close_layouts_until(p), p being Layout::is_paren or Layout::is_let.
RECURSIVE close_layouts_until(_, _)
close_layouts_until(it, p) ==
    IF Len(it.layouts) = 0 THEN [it |-> it, found |-> FALSE]
    ELSE IF Holds(p, Top(it.layouts))
    THEN [it |-> [it EXCEPT !.layouts = Pop(@)], found |-> TRUE]
    ELSE IF is_paren(Top(it.layouts))
    THEN close_layouts_until([it EXCEPT !.layouts = Pop(@)], p)
    ELSE close_layouts_until([it EXCEPT !.layouts = Pop(@), !.queue = Append(@, "VRBrace")],
                             p)

\* while Some(col) < self.layouts.last().and_then(|l| l.column()) { pop; push_back }
RECURSIVE layout_dedent(_, _)
layout_dedent(it, col) ==
    IF OptLess(Some(col), LastColumn(it.layouts))
    THEN layout_dedent([it EXCEPT !.layouts = Pop(@), !.queue = Append(@, "VRBrace")], col)
    ELSE it

\* The Indent arm at column col, pk being self.inner after peek().
layout_column(it, col, pk) ==
    IF RawName(RawTokenLayout, pk.peeked[1]) \in {"Indent", "In"}
    THEN Arm(FALSE, [it EXCEPT !.column = col, !.inner = pk], WNone)
    ELSE IF it.pending # None
    THEN Arm(FALSE, [it EXCEPT !.column = col, !.inner = pk], WNone)
    ELSE IF Len(it.layouts) > 0 /\ Some(col) = LastColumn(it.layouts)
    THEN Arm(TRUE, [it EXCEPT !.column = col, !.inner = pk], WOk("VSemicolon"))
    ELSE IF OptLess(Some(col), LastColumn(it.layouts))
    THEN Arm(TRUE,
             layout_dedent([it EXCEPT !.column = col, !.inner = pk, !.layouts = Pop(@)],
                           col),
             WOk("VRBrace"))
    ELSE Arm(FALSE, [it EXCEPT !.column = col, !.inner = pk], WNone)

\* The arm RawToken::Indent(indent).
layout_indent_arm(inp, it, indent) ==
    layout_column(it, Len(indent) - 1, PeekablePeek(RawTokenLayout, inp, it.inner))

\* if let Some(l) = self.pending_layout.take() { self.layouts.push(..) },
\* for a token that is no white space.
open_pending(it, name) ==
    IF name \notin {"Whitespace", "Indent"} /\ it.pending # None
    THEN [it EXCEPT !.layouts = Append(@, with_column(it.pending[1], it.column)),
                    !.pending = None]
    ELSE it

\* self.column += r - l
advance(it, n) == [it EXCEPT !.column = @ + n]

\* let and by queue a VLBrace and leave a layout pending.
open_layout(it, name) ==
    CASE name = "Let" ->
            [it EXCEPT !.queue = Append(@, "VLBrace"), !.pending = Some(Layout("Let", 0))]
      [] name = "By" ->
            [it EXCEPT !.queue = Append(@, "VLBrace"), !.pending = Some(Layout("Other", 0))]
      [] OTHER -> it

\* self.queue.push_back(tok); return Some(Ok(self.queue.pop_front().unwrap()))
push_and_pop(it, tok) ==
    Arm(TRUE, [it EXCEPT !.queue = Tail(Append(it.queue, tok))],
        WOk(Head(Append(it.queue, tok))))

\* The In arm after close_layouts_until(Layout::is_let) returned c.
in_arm(c) ==
    IF c.found THEN push_and_pop([c.it EXCEPT !.queue = Append(@, "VRBrace")], "In")
    ELSE push_and_pop(c.it, "In")

\* The second match on t: the arm of the token.
layout_arm(inp, it, raw, name) ==
    CASE name = "Whitespace" -> Arm(FALSE, it, WNone)
      [] name = "Indent" -> layout_indent_arm(inp, it, raw.text)
      [] name \in {"ColonEqual", "Let", "By", "Identifier"} -> Arm(TRUE, it, WOk(name))
      [] name = "LParen" ->
            Arm(TRUE, [it EXCEPT !.layouts = Append(@, Paren)], WOk("LParen"))
      [] name = "RParen" -> push_and_pop(close_layouts_until(it, "paren").it, "RParen")
      [] name = "In" -> in_arm(close_layouts_until(it, "let"))

\* Some(Ok((l, t, r))): the pending layout gets its column, the column
\* advances, let and by open a layout, then the arm of t.
layout_token(inp, it, raw, name) ==
    layout_arm(inp,
               open_layout(advance(open_pending(it, name), raw.end - raw.start), name),
               raw, name)

\* The arm of one raw item of the match in TokenIterator::next, name being
\* the variant of the item.
layout_match(inp, it, raw, name) ==
    CASE name = "error" -> Arm(TRUE, it, WErr("LexerError", raw.start))
      [] name = "end" ->
            IF Len(it.layouts) > 0
            THEN Arm(TRUE,
                     [it EXCEPT !.layouts = <<>>,
                                !.queue = @ \o [k \in 1..(Len(it.layouts) - 1) |->
                                                    "VRBrace"]],
                     WOk("VRBrace"))
            ELSE Arm(TRUE, it, WEnd)
      [] OTHER -> layout_token(inp, it, raw, name)

\* What one turn of the loop of next() read and did.
LayoutTurn(raw, name, it, a) ==
    [raw |-> name, start |-> raw.start, len |-> raw.end - raw.start,
     layouts |-> it.layouts, pending |-> it.pending, column |-> it.column,
     after |-> a.it.layouts, item |-> a.item, queued |-> a.it.queue]

\* The loop of TokenIterator::next, entered with an empty queue: r is what
\* self.inner.next() returned in this turn and a what the arm of its item
\* did.
RECURSIVE layout_loop(_, _, _)
layout_turn(inp, it, log, r, a) ==
    IF a.ret
    THEN Returned(a.it, a.item,
                  Append(log, LayoutTurn(r.item, RawName(RawTokenLayout, r.item), it, a)))
    ELSE layout_loop(inp, a.it,
                     Append(log, LayoutTurn(r.item, RawName(RawTokenLayout, r.item), it, a)))

layout_read(inp, it, log, r) ==
    layout_turn(inp, it, log, r,
                layout_match(inp, [it EXCEPT !.inner = r.iter], r.item,
                             RawName(RawTokenLayout, r.item)))

layout_loop(inp, it, log) ==
    layout_read(inp, it, log, PeekableNext(RawTokenLayout, inp, it.inner))

\* TokenIterator::next
layout_next(inp, it) ==
    IF Len(it.queue) > 0
    THEN Returned([it EXCEPT !.queue = Tail(@)], WOk(Head(it.queue)), <<>>)
    ELSE layout_loop(inp, it, <<>>)

\* The pieces the inputs of the layout tests are made of.
LayoutWords ==
    { <<"l", "e", "t", " ">>, <<"i", "n", " ">>, <<"b", "y", " ">>, <<"x", " ">>,
      <<"(", " ">>, <<")", " ">>, <<"\n">>, <<"-">> }

\* Token::lex(input)
LayoutLex(inp) ==
    [input |-> inp, words |-> 0,
     it |-> [inner |-> Peekable, layouts |-> <<>>, pending |-> None, column |-> 0,
             queue |-> <<>>],
     last |-> WNone, out |-> <<>>, log |-> <<>>, before |-> <<>>]

InitLayout ==
    /\ decl = "TokenSimple"
    /\ hook = NoHook
    /\ input = <<>>
    /\ consumed = 0
    /\ last = NotCalled
    /\ trace = <<>>
    /\ spans = <<>>
    /\ results = <<>>
    /\ restarted = FALSE
    /\ DFA = Uninit
    /\ inits = 0
    /\ th = <<>>
    /\ item = Item("enum", <<>>, <<>>)
    /\ derived = NotDerived
    /\ probe = NoProbe
    /\ scan = Unused
    /\ ind = Unused
    /\ lay = LayoutLex(<<>>)

\* The input is written, piece by piece, before the iterator is used.
LayoutType ==
    /\ lay.last = WNone
    /\ lay.words < MaxLayoutWords
    /\ \E w \in LayoutWords :
            lay' = [lay EXCEPT !.input = @ \o w, !.words = @ + 1,
                               !.it = LayoutLex(lay.input \o w).it]
    /\ UNCHANGED <<decl, gen_vars, scan, ind>>

\* The iterator and what the test has collected, after a call that found
\* the queue i.it.queue returned r.
LayoutCalled(i, r) ==
    [i EXCEPT !.it = r.it, !.last = r.item, !.log = r.log,
              !.out = Emit(i.out, i.last, r.item), !.before = i.it.queue]

\* One call of next() on the TokenIterator.
LayoutNext ==
    /\ lay' = LayoutCalled(lay, layout_next(lay.input, lay.it))
    /\ UNCHANGED <<decl, gen_vars, scan, ind>>

NextLayout == LayoutType \/ LayoutNext

SpecLayout == InitLayout /\ [][NextLayout]_vars

TypeOK ==
    /\ decl \in DeclNames
    /\ consumed \in Nat
    /\ last.kind \in {"none", "token", "error", "end", "panic"}

(***************************************************************************)
(* Reference semantics for the properties: membership of a string in the   *)
(* language of a regex, by structure and not through the automaton.        *)
(***************************************************************************)
RECURSIVE Matches(_, _)
Matches(r, w) ==
    CASE r[1] = "empty" -> FALSE
      [] r[1] = "eps" -> Len(w) = 0
      [] r[1] = "chr" -> Len(w) = 1 /\ w[1] \in r[2]
      [] r[1] = "alt" -> Matches(r[2], w) \/ Matches(r[3], w)
      [] r[1] = "cat" ->
            \E k \in 0..Len(w) :
                Matches(r[2], SubSeq(w, 1, k)) /\ Matches(r[3], SubSeq(w, k + 1, Len(w)))
      [] r[1] = "star" ->
            \/ Len(w) = 0
            \/ \E k \in 1..Len(w) :
                Matches(r[2], SubSeq(w, 1, k)) /\ Matches(r, SubSeq(w, k + 1, Len(w)))

Pats == regexes(Decl(decl))
NumVariants == Len(Decl(decl).variants)
From(k) == SubSeq(input, k + 1, Len(input))

\* The 0-based ids of the patterns that match exactly the first n bytes of s.
MatchingPats(s, n) ==
    {p \in 0..(Len(Pats) - 1) : Matches(Pats[p + 1], SubSeq(s, 1, n))}

\* The lengths of the non-empty prefixes of s that some pattern matches.
MatchLens(s) == {n \in 1..Len(s) : MatchingPats(s, n) # {}}

Max(S) == CHOOSE x \in S : \A y \in S : y <= x
Min(S) == CHOOSE x \in S : \A y \in S : x <= y

Scans == {trace[k] : k \in 1..Len(trace)}

\* C1: longest match. Every scan step that next() performed on a slice
\* input[start..] of which some pattern matches a non-empty prefix returned
\* the greatest length of such a prefix, over all token and skip patterns.
C1_LongestMatch ==
    \A sc \in Scans :
        MatchLens(From(sc.start)) # {} => sc.len = Max(MatchLens(From(sc.start)))

\* A scan step where a shorter and a longer prefix both match and the longer
\* one was returned ("abc" against A, B, Abc).
C1_Witness ==
    \E sc \in Scans :
        /\ Cardinality(MatchLens(From(sc.start))) >= 2
        /\ sc.len = Max(MatchLens(From(sc.start)))
        /\ sc.len > Min(MatchLens(From(sc.start)))

\* C2: tie-break by declaration order. The pattern id a scan step returns is
\* the lowest id among the patterns that match the returned prefix, so the
\* earliest variant wins and a token pattern wins over a skip pattern.
C2_TieBreak ==
    \A sc \in Scans :
        sc.len > 0 => sc.pat = Min(MatchingPats(From(sc.start), sc.len))

\* A scan step whose longest prefix is matched by a token pattern and by a
\* later pattern too, and the token was emitted.
C2_Witness ==
    /\ last.kind = "token"
    /\ \E sc \in Scans :
        /\ sc.len > 0
        /\ sc.start = last.start
        /\ Cardinality(MatchingPats(From(sc.start), sc.len)) >= 2
        /\ sc.pat = last.variant

\* C3: no zero-length advance. Every match the iterator consumed (an emitted
\* token or a skip) is at least one byte long, a call that yields a token
\* leaves consumed beyond the token's start, and no scan step returns a
\* match of length 0.
C3_NoZeroAdvance ==
    /\ \A k \in 1..Len(spans) : spans[k].end >= spans[k].start + 1
    /\ \A sc \in Scans : sc.pat >= 0 => sc.len >= 1
    /\ last.kind = "token" => consumed >= last.start + 1 /\ last.end >= last.start + 1

\* A pattern accepts the empty string at the cursor, nothing longer matches
\* there, and the call ended in a lexical error after earlier advances.
C3_Witness ==
    /\ last.kind = "error"
    /\ Len(spans) > 0
    /\ MatchingPats(From(consumed), 0) # {}
    /\ MatchLens(From(consumed)) = {}

\* The emitted tokens of this pass, in order.
Tokens == SelectSeq(spans, LAMBDA sp : ~sp.skip)

\* C4: bounds. In every reachable state 0 <= consumed <= len(input), and every
\* emitted token has 0 <= start < end <= len(input), also when a hook extended
\* it by any extra >= 0.
C4_Bounds ==
    /\ 0 <= consumed /\ consumed <= Len(input)
    /\ \A k \in 1..Len(Tokens) :
        /\ 0 <= Tokens[k].start
        /\ Tokens[k].start < Tokens[k].end
        /\ Tokens[k].end <= Len(input)
    /\ last.kind = "token" => 0 <= last.start /\ last.start < last.end /\ last.end <= Len(input)

\* C5: ordering. In one pass the emitted tokens have strictly increasing
\* starts, each token begins at or after the end of the one before it, every
\* token is non-empty, and the token a call returns is the latest of them.
C5_Ordering ==
    /\ \A k \in 1..Len(Tokens) : Tokens[k].start < Tokens[k].end
    /\ \A k \in 1..(Len(Tokens) - 1) :
        /\ Tokens[k].start < Tokens[k + 1].start
        /\ Tokens[k].end <= Tokens[k + 1].start
    /\ last.kind = "token" =>
        /\ Len(Tokens) > 0
        /\ Tokens[Len(Tokens)].start = last.start
        /\ Tokens[Len(Tokens)].end = last.end

\* Two successive tokens with skipped bytes between them.
C5_Witness ==
    /\ last.kind = "token"
    /\ \E k \in 1..(Len(Tokens) - 1) : Tokens[k].end < Tokens[k + 1].start

\* input[start..end] of every span, concatenated in iteration order.
RECURSIVE ConcatSpans(_)
ConcatSpans(sps) ==
    IF Len(sps) = 0 THEN <<>>
    ELSE SubSeq(input, Head(sps).start + 1, Head(sps).end) \o ConcatSpans(Tail(sps))

\* C6: coverage. The spans of the emitted tokens and skipped matches are
\* contiguous: the first starts at 0, each starts where the one before ended,
\* the last ends at consumed; a skipped span is a match of a skip pattern;
\* and at an error or at the end the spans spell input[0..consumed].
C6_Coverage ==
    /\ Len(spans) = 0 => consumed = 0
    /\ Len(spans) > 0 => spans[1].start = 0 /\ spans[Len(spans)].end = consumed
    /\ \A k \in 1..(Len(spans) - 1) : spans[k + 1].start = spans[k].end
    /\ \A k \in 1..Len(spans) :
        spans[k].skip =>
            \E p \in NumVariants..(Len(Pats) - 1) :
                Matches(Pats[p + 1], SubSeq(input, spans[k].start + 1, spans[k].end))
    /\ last.kind \in {"error", "end"} => ConcatSpans(spans) = SubSeq(input, 1, consumed)

\* An iteration that ended after a token, skipped bytes and another token.
C6_Witness ==
    /\ last.kind = "end"
    /\ \E k \in 2..(Len(spans) - 1) :
        ~spans[k - 1].skip /\ spans[k].skip /\ ~spans[k + 1].skip

\* C7: skip invisibility. Inside one call of next() every scan step but the
\* last matched a skip pattern and only moved the cursor by its length to
\* where the next scan step began; a scan step that matched a skip pattern
\* last is followed by end-of-sequence; a yielded token is a variant, never a
\* skip pattern, and it is the match of the call's last scan step.
C7_SkipInvisible ==
    /\ \A k \in 1..(Len(trace) - 1) :
        /\ trace[k].pat >= NumVariants
        /\ trace[k + 1].start = trace[k].start + trace[k].len
    /\ (Len(trace) > 0 /\ trace[Len(trace)].pat >= NumVariants) =>
        /\ last.kind = "end"
        /\ consumed = trace[Len(trace)].start + trace[Len(trace)].len
    /\ last.kind = "token" =>
        /\ last.variant \in 0..(NumVariants - 1)
        /\ Len(trace) > 0
        /\ trace[Len(trace)].pat = last.variant
        /\ trace[Len(trace)].start = last.start

\* A call that consumed two skip matches and then yielded a token.
C7_Witness ==
    /\ last.kind = "token"
    /\ Len(trace) >= 3
    /\ trace[1].pat >= NumVariants
    /\ trace[2].pat >= NumVariants

\* C8 as stated: termination. A caller that keeps calling next() eventually
\* receives end-of-sequence. next() is a function of input and consumed, so a
\* call that returns anything but end-of-sequence has to move the cursor
\* forward: a call that leaves it in place is repeated by every later call.
C8_Terminates ==
    [][(last'.kind \notin {"none", "end"}) => consumed' > consumed]_vars

\* C8 as amended: every call of next() returns end-of-sequence, a lexical
\* error, a panic, or a token that begins before len(input) and moves the
\* cursor forward, so that one pass yields at most len(input) tokens before
\* end-of-sequence, an error or a panic; end-of-sequence is returned only
\* with consumed = len(input).
C8_Settles ==
    /\ [][(last'.kind \notin {"none", "end", "error", "panic"})
            => (last'.kind = "token" /\ consumed < Len(input) /\ consumed' > consumed)]_vars
    /\ [](Len(Tokens) <= Len(input))
    /\ [](last.kind = "end" => consumed = Len(input))

\* An iteration that emitted at least two tokens and then ended.
C8_Witness ==
    /\ last.kind = "end"
    /\ consumed = Len(input)
    /\ Len(Tokens) >= 2

\* C9: end of sequence. next() returns end-of-sequence only with
\* consumed = len(input) and after scan steps that all matched skip patterns;
\* a call that leaves the cursor at len(input) without a token match, an
\* error or a panic returns end-of-sequence; on the empty input it does so
\* without a scan step; and after end-of-sequence every later call (short of
\* a reset) returns end-of-sequence again and leaves consumed as it is.
C9_EndOfSequence ==
    /\ [](last.kind = "end" =>
            /\ consumed = Len(input)
            /\ \A k \in 1..Len(trace) : trace[k].pat >= NumVariants)
    /\ []((/\ last.kind # "none"
           /\ consumed = Len(input)
           /\ (Len(trace) = 0 \/ trace[Len(trace)].pat >= NumVariants))
          => last.kind = "end")
    /\ []((Len(input) = 0 /\ last.kind # "none") => (last.kind = "end" /\ Len(trace) = 0))
    /\ [][(last.kind = "end" /\ last'.kind # "none")
            => (last'.kind = "end" /\ consumed' = consumed)]_vars

\* End-of-sequence returned by a call that first consumed skip matches at
\* the cursor, after tokens had been emitted.
C9_Witness ==
    /\ last.kind = "end"
    /\ Len(trace) > 0
    /\ Len(Tokens) > 0

\* The latest scan step found no non-empty match, by the reference semantics.
LastScanNoMatch ==
    /\ Len(trace) > 0
    /\ MatchLens(From(trace[Len(trace)].start)) = {}

\* The latest scan step matched a variant whose hook signals failure on
\* (matched, remaining).
LastScanHookFails ==
    /\ Len(trace) > 0
    /\ LET sc == trace[Len(trace)]
           rem == From(sc.start)
       IN  /\ sc.pat \in 0..(NumVariants - 1)
           /\ Decl(decl).variants[sc.pat + 1].more
           /\ call_more(hook, SubSeq(rem, 1, sc.len), SubSeq(rem, sc.len + 1, Len(rem))) = None

\* C10: scan-time errors. The item a call returned is a lexical error if and
\* only if its last scan step found no non-empty match or the hook of the
\* matched variant signalled failure; the error carries the offset where that
\* scan step began, which is also consumed after the call, so nothing of the
\* failed attempt is consumed.
C10_ScanErrors ==
    /\ (last.kind = "error") <=> (LastScanNoMatch \/ LastScanHookFails)
    /\ last.kind = "error" =>
        /\ last.start = trace[Len(trace)].start
        /\ consumed = last.start

\* A hook failure behind the start of the input: the error offset is where
\* the variant's match began, not 0 and not where the DFA match ended.
C10_Witness ==
    /\ last.kind = "error"
    /\ LastScanHookFails
    /\ consumed > 0
    /\ last.start = consumed

\* The bytes of the skip matches a call consumed before its last scan step.
RECURSIVE SkippedIn(_)
SkippedIn(tr) ==
    IF Len(tr) <= 1 THEN 0
    ELSE tr[1].len + SkippedIn(Tail(tr))

\* C11: no advance on error, as stated. A call of next() that yields a
\* lexical error leaves consumed at the value it had when the call began.
C11_NoAdvanceOnError ==
    [][last'.kind = "error" => consumed' = consumed]_vars

\* C11, amended: a call that yields a lexical error leaves consumed at the
\* error offset, the start of the failed scan step; the call advanced consumed
\* by exactly the skip matches it consumed before that step, and by nothing
\* when the failed step was its first.
C11_ErrorKeepsOffset ==
    [][last'.kind = "error" =>
        /\ consumed' = last'.start
        /\ consumed' = consumed + SkippedIn(trace')
        /\ Len(trace') = 1 => consumed' = consumed]_vars

\* A call that consumed a skip match and then failed: consumed is past the
\* offset at which the call began.
C11_Witness ==
    /\ last.kind = "error"
    /\ Len(trace) >= 2
    /\ trace[1].start < consumed
    /\ consumed = last.start

RECURSIVE RunFrom(_, _, _)
RunFrom(inp, c, n) ==
    IF n = 0 THEN <<>>
    ELSE LET r == next_loop(Pats, Decl(decl), hook, inp, c, <<>>, <<>>)
         IN  <<r.item>> \o (IF r.item.kind = "panic" THEN <<>>
                            ELSE RunFrom(inp, r.consumed, n - 1))

\* C13: restart equivalence. After the caller has set consumed back to 0, at
\* whatever point of the iteration, the items of the new pass are those of an
\* iteration from a fresh lex(input), and the view of the DFA is still the one
\* the first call of next() initialised: the closure has run once.
C13_Restart ==
    restarted =>
        /\ results = RunFrom(input, 0, Len(results))
        /\ DFA = Complete(Pats)
        /\ inits = 1

\* A pass after a reset that returned a token and went on to its final item.
C13_Witness ==
    /\ restarted
    /\ Len(results) >= 2
    /\ results[1].kind = "token"
    /\ results[Len(results)].kind \in {"end", "error"}
    /\ inits = 1

\* C14: once-initialisation. Whatever the number of threads that make their
\* first call of next() at the same time, the closure that deserialises the
\* DFA runs at most once; while it runs exactly one thread is inside it; a
\* thread goes on to scan only when the view is stored completely, and every
\* thread scans with that same view.
C14_OnceInit ==
    /\ inits <= 1
    /\ DFA.state = "running" => Cardinality({t \in Threads : th[t].pc = "init"}) = 1
    /\ DFA.state # "running" => \A t \in Threads : th[t].pc # "init"
    /\ \A t \in Threads :
        (th[t].pc \in {"scan", "done"} \/ Len(th[t].results) > 0) =>
            /\ DFA.state = "complete"
            /\ inits = 1
            /\ th[t].dfa = DFA.value
            /\ th[t].dfa = Pats

\* Both threads are inside their first call of next(), past get_or_init, and
\* neither has scanned yet.
C14_Witness ==
    /\ \A t \in Threads : th[t].pc = "scan" /\ Len(th[t].results) = 0
    /\ inits = 1
    /\ th[1].dfa = th[2].dfa

\* C15: thread sharing. Two iterators of the same declaration over their own
\* inputs, their calls of next() interleaved in any order, return the items
\* each of them returns when it runs alone from cursor 0: an item depends on
\* the iterator's own input and cursor only.
C15_ThreadSharing ==
    \A t \in Threads :
        /\ th[t].results = RunFrom(th[t].input, 0, Len(th[t].results))
        /\ th[t].pc = "idle" /\ Len(th[t].results) > 0 =>
            th[t].consumed = th[t].results[Len(th[t].results)].end

\* Two iterators over distinct inputs, each with one token returned and
\* inside its second call: neither ran to its end before the other began.
C15_Witness ==
    /\ th[1].input # th[2].input
    /\ \A t \in Threads :
        /\ th[t].pc = "scan"
        /\ Len(th[t].results) = 1
        /\ th[t].results[1].kind = "token"
        /\ th[t].consumed < Len(th[t].input)

\* The latest scan step matched a variant with a continuation hook.
LastScanHooked ==
    /\ Len(trace) > 0
    /\ trace[Len(trace)].pat \in 0..(NumVariants - 1)
    /\ Decl(decl).variants[trace[Len(trace)].pat + 1].more

\* What the hook returns on the matched slice input[start..start+length] and
\* the tail input[start+length..] of the latest scan step.
LastHookResult ==
    LET sc == trace[Len(trace)]
    IN  call_more(hook, SubSeq(input, sc.start + 1, sc.start + sc.len),
                  SubSeq(input, sc.start + sc.len + 1, Len(input)))

\* C16: continuation hook success. When the matched variant has a hook and
\* the hook, called with the matched slice and the tail after it, returns
\* extra, the call emits the token (start, variant, start+length+extra), a
\* text variant carries the whole extended slice, and consumed becomes
\* start+length+extra.
C16_HookSuccess ==
    (LastScanHooked /\ LastHookResult # None) =>
        LET sc == trace[Len(trace)]
            stop == sc.start + sc.len + LastHookResult[1]
        IN  /\ last.kind = "token"
            /\ last.start = sc.start
            /\ last.variant = sc.pat
            /\ last.end = stop
            /\ consumed = stop
            /\ Decl(decl).variants[sc.pat + 1].text =>
                /\ stop <= Len(input)
                /\ last.text = SubSeq(input, sc.start + 1, stop)

\* C17: token text. Every token a call emits ends where consumed is after
\* the call, and the slice carried by a token of a text variant is exactly
\* input[start..end] of that token.
C17_TokenText ==
    last.kind = "token" =>
        /\ last.end = consumed
        /\ Decl(decl).variants[last.variant + 1].text =>
            /\ last.end <= Len(input)
            /\ last.text = SubSeq(input, last.start + 1, last.end)

\* A token of a text variant that a hook extended, behind the start of the
\* input: its text is longer than the DFA match.
C17_Witness ==
    /\ last.kind = "token"
    /\ last.start > 0
    /\ Decl(decl).variants[last.variant + 1].text
    /\ Decl(decl).variants[last.variant + 1].more
    /\ Len(last.text) > trace[Len(trace)].len
    /\ last.text = SubSeq(input, last.start + 1, consumed)

\* The positions of the regex and token attributes of variant v.
RegexOrToken(v) == {j \in 1..Len(v.attrs) : v.attrs[j].path \in {"regex", "token"}}

\* A lexer option the macro does not know at that place: anything but skip
\* on the item, anything but more on a variant.
UnknownOption(attrs, known) ==
    \E j \in 1..Len(attrs) : attrs[j].path = "lexer" /\ attrs[j].key # known

\* C18: declaration errors. The macro succeeds only on an enum each of whose
\* variants has exactly one token or regex attribute; a variant with none or
\* with two of them (in any mix), an unknown lexer option, or an item that is
\* not an enum ends in an error, and then nothing is generated: no pattern
\* list, no match arms, no iterator to call.
C18_DeclarationErrors ==
    derived # NotDerived =>
        /\ derived.ok =>
            /\ item.kind = "enum"
            /\ \A k \in 1..Len(item.variants) :
                Cardinality(RegexOrToken(item.variants[k])) = 1
        /\ (\/ item.kind # "enum"
            \/ UnknownOption(item.attrs, "skip")
            \/ \E k \in 1..Len(item.variants) :
                \/ Cardinality(RegexOrToken(item.variants[k])) # 1
                \/ UnknownOption(item.variants[k].attrs, "more")) =>
            /\ ~derived.ok
            /\ derived.err # ""
            /\ regexes(derived.decl) = <<>>
            /\ derived.decl.variants = <<>>
            /\ probe = NoProbe

\* The macro has rejected an enum whose second variant has a token and a
\* regex attribute, the first variant being well formed.
C18_Witness ==
    /\ derived.err = "duplicated regex or token atrribute"
    /\ Len(item.variants) = 2
    /\ Cardinality(RegexOrToken(item.variants[1])) = 1
    /\ \E j \in RegexOrToken(item.variants[2]) :
       \E k \in RegexOrToken(item.variants[2]) :
            item.variants[2].attrs[j].path = "token" /\ item.variants[2].attrs[k].path = "regex"

\* The one regex or token attribute variant v was declared with.
DeclaredAttr(v) == v.attrs[CHOOSE j \in RegexOrToken(v) : TRUE]

\* w is what variant v was declared to match: the token itself, or a string
\* of the regex's language.
MatchesDeclared(v, w) ==
    IF DeclaredAttr(v).path = "token" THEN w = DeclaredAttr(v).arg
    ELSE Matches(DeclaredAttr(v).arg, w)

\* The skip options of the item, in attribute order.
SkipAttrs == SelectSeq(item.attrs, LAMBDA a : a.path = "lexer" /\ a.key = "skip")

\* Scan step n of the probing call ended in the skip arm: the call went on
\* to another scan step or to the end of the input.
ProbeSkipped(n) == n < Len(probe.out.trace) \/ probe.out.item.kind = "end"

\* C19: pattern-id mapping. After the macro succeeded, the pattern list is
\* one pattern per variant in declaration order, then the skip regexes in
\* attribute order; a match with pattern id below the number of variants is
\* handed to the arm of the variant of that index and matches what that
\* variant was declared with, and a match is skipped exactly when its id is
\* at least the number of variants, and then matches the skip regex of that
\* position.
C19_PatternIds ==
    derived.ok =>
        LET d == derived.decl
            pats == regexes(d)
            nv == Len(item.variants)
        IN  /\ Len(pats) = nv + Len(SkipAttrs)
            /\ Len(d.variants) = nv
            /\ \A k \in 1..nv :
                /\ d.variants[k].name = item.variants[k].name
                /\ pats[k] = IF DeclaredAttr(item.variants[k]).path = "token"
                             THEN escape(DeclaredAttr(item.variants[k]).arg)
                             ELSE DeclaredAttr(item.variants[k]).arg
            /\ \A j \in 1..Len(SkipAttrs) : pats[nv + j] = SkipAttrs[j].arg
            /\ \A n \in 1..Len(probe.out.trace) :
                LET sc == probe.out.trace[n]
                    w == SubSeq(probe.input, sc.start + 1, sc.start + sc.len)
                IN  sc.pat # -1 =>
                        /\ ProbeSkipped(n) <=> sc.pat >= nv
                        /\ sc.pat >= nv => Matches(SkipAttrs[sc.pat - nv + 1].arg, w)
                        /\ sc.pat < nv =>
                            /\ MatchesDeclared(item.variants[sc.pat + 1], w)
                            /\ probe.out.item.kind \in {"token", "error"}
                            /\ probe.out.item.kind = "token" =>
                                probe.out.item.variant = sc.pat
            /\ probe.out.item.kind = "token" =>
                probe.out.trace[Len(probe.out.trace)].pat \in 0..(nv - 1)

\* An enum of two variants and one skip regex; the probing call skipped a
\* match of the skip regex (pattern id 2) and returned the second variant
\* (pattern id 1).
C19_Witness ==
    /\ derived.ok
    /\ Len(item.variants) = 2
    /\ Len(SkipAttrs) = 1
    /\ Len(probe.out.trace) = 2
    /\ probe.out.trace[1].pat = 2
    /\ probe.out.trace[2].pat = 1
    /\ probe.out.item.kind = "token"
    /\ probe.out.item.variant = 1

\* C20: sticky error. Once a call of next() has returned a lexical error with
\* offset k, every later call of the same pass returns that same error, and
\* consumed stays at k.
C20_StickyError ==
    /\ \A i \in 1..Len(results) : \A j \in i..Len(results) :
        results[i].kind = "error" => results[j] = results[i]
    /\ last.kind = "error" =>
        /\ consumed = last.start
        /\ results[Len(results)] = last

\* A token, then an error behind the start of the input, then the same
\* error from the next call.
C20_Witness ==
    /\ Len(results) >= 3
    /\ results[1].kind = "token"
    /\ results[Len(results)].kind = "error"
    /\ results[Len(results) - 1] = results[Len(results)]
    /\ last.start > 0
    /\ consumed = last.start

\* The state of the automaton of the declaration after the first n bytes of s.
RECURSIVE StateAfter(_, _)
StateAfter(s, n) ==
    IF n = 0 THEN start_state(Pats)
    ELSE next_state(StateAfter(s, n - 1), s[n])

\* The 0-based indices i of the bytes of s that the scan reads and whose
\* transition enters a match state: no transition up to i entered a dead
\* state.
AcceptIdx(s) ==
    {i \in 0..(Len(s) - 1) :
        /\ is_match_state(StateAfter(s, i + 1))
        /\ \A n \in 1..(i + 1) : ~is_dead_state(StateAfter(s, n))}

\* The scan reads all of s without entering a dead state and the end-of-input
\* transition enters a match state.
EoiAccepts(s) ==
    /\ \A n \in 1..Len(s) : ~is_dead_state(StateAfter(s, n))
    /\ is_match_state(next_eoi_state(StateAfter(s, Len(s))))

\* C21: recording rule, as stated. When the last match state of a scan step
\* was entered on the byte at index i, the position recorded is i + 1: the
\* returned length counts that byte.
C21_RecordsNext ==
    \A n \in 1..Len(trace) :
        LET rem == From(trace[n].start)
        IN  (AcceptIdx(rem) # {} /\ ~EoiAccepts(rem)) =>
                trace[n].len = Max(AcceptIdx(rem)) + 1

\* C21, amended: when the last match state of a scan step was entered on the
\* byte at index i, the position recorded is i, overwriting any earlier one:
\* the returned length is the number of bytes before index i, these bytes
\* match the returned pattern and the byte at index i is not part of the
\* match; a recorded position of 0 is no match.
C21_RecordsIndex ==
    \A n \in 1..Len(trace) :
        LET rem == From(trace[n].start)
            sc == trace[n]
        IN  (AcceptIdx(rem) # {} /\ ~EoiAccepts(rem)) =>
                /\ sc.len = Max(AcceptIdx(rem))
                /\ sc.len < Len(rem)
                /\ (sc.pat = -1) <=> (sc.len = 0)
                /\ sc.pat # -1 => Matches(Pats[sc.pat + 1], SubSeq(rem, 1, sc.len))

\* A scan step entered match states on the bytes at two indices and returned
\* the later index as the length: the byte at that index is left unread.
C21_Witness ==
    /\ Len(trace) > 0
    /\ LET rem == From(trace[Len(trace)].start)
       IN  /\ Cardinality(AcceptIdx(rem)) >= 2
           /\ ~EoiAccepts(rem)
           /\ trace[Len(trace)].len = Max(AcceptIdx(rem))
           /\ last.kind = "token"
           /\ consumed = last.start + Max(AcceptIdx(rem))

\* The number of bytes of s after which the automaton is dead for the first
\* time, or 0 when it reads all of s without dying.
FirstDead(s) ==
    LET D == {n \in 1..Len(s) : is_dead_state(StateAfter(s, n))}
    IN  IF D = {} THEN 0 ELSE Min(D)

\* C22: dead state and end-of-input. When a call of dfa_search_next on a
\* non-empty slice s has left its search block: if the automaton died after
\* d bytes, the call made d byte transitions and no end-of-input transition,
\* and the recorded position is the last one recorded before the dead state,
\* that is of a prefix some pattern matches (or 0 if none was recorded);
\* otherwise it made len(s) byte transitions and exactly one end-of-input
\* transition, and if that state is a match state the call returns a match
\* of length len(s), of a pattern that matches all of s.
C22_DeadAndEoi ==
    scan.pc \in {"return", "done"} =>
        LET s == scan.input
            d == FirstDead(s)
        IN  IF d > 0
            THEN /\ Len(scan.path) = d
                 /\ is_dead_state(scan.path[d])
                 /\ scan.eois = <<>>
                 /\ scan.matched.len = IF AcceptIdx(s) = {} THEN 0 ELSE Max(AcceptIdx(s))
                 /\ scan.matched.len < d
                 /\ scan.matched.len > 0 =>
                        MatchingPats(s, scan.matched.len) # {}
                 /\ scan.pc = "done" =>
                        scan.result = IF scan.matched.len = 0 THEN None
                                      ELSE <<Min(MatchingPats(s, scan.matched.len)),
                                             scan.matched.len>>
            ELSE /\ Len(scan.path) = Len(s)
                 /\ Len(scan.eois) = 1
                 /\ scan.eois[1] = next_eoi_state(StateAfter(s, Len(s)))
                 /\ is_match_state(scan.eois[1]) <=> MatchingPats(s, Len(s)) # {}
                 /\ (is_match_state(scan.eois[1]) /\ scan.pc = "done") =>
                        scan.result = <<Min(MatchingPats(s, Len(s))), Len(s)>>

\* A call that recorded a match, read on, died before the end of the slice
\* and returned the recorded match; and (C22_WitnessEoi) a call that read
\* all of the slice and took the match from the end-of-input transition.
C22_Witness ==
    /\ scan.pc = "done"
    /\ FirstDead(scan.input) > 0
    /\ FirstDead(scan.input) < Len(scan.input)
    /\ scan.result # None
    /\ scan.result[2] < FirstDead(scan.input) - 1

C22_WitnessEoi ==
    /\ scan.pc = "done"
    /\ Len(scan.eois) = 1
    /\ scan.result # None
    /\ scan.result[2] = Len(scan.input)
    /\ Len(scan.input) >= 2

\* How often token t occurs among the items of a sequence of wrapper items,
\* and in a queue of tokens.
CountOut(out, t) == Cardinality({k \in 1..Len(out) : out[k].kind = "ok" /\ out[k].tok = t})
CountQueue(q, t) == Cardinality({k \in 1..Len(q) : q[k] = t})

\* C23: block balance of the indentation wrapper. After every call of
\* next(), the Indent tokens emitted or queued minus the Dedent tokens
\* emitted or queued are as many as the indentation stack is deep, also after
\* a misaligned dedent; and when the iterator has ended as many Dedent as
\* Indent tokens were emitted.
C23_BlockBalance ==
    /\ CountOut(ind.out, "Indent") + CountQueue(ind.it.queue, "Indent")
            - CountOut(ind.out, "Dedent") - CountQueue(ind.it.queue, "Dedent")
       = Len(ind.it.intents)
    /\ ind.last.kind = "end" => CountOut(ind.out, "Indent") = CountOut(ind.out, "Dedent")

\* A call of next() ran into a dedent to a level strictly between two open
\* levels.
C23_Misaligned ==
    /\ ind.last = WErr("MisalignedIndentation", ind.last.at)
    /\ Len(ind.it.intents) > 0

\* C24: brackets of the indentation wrapper. A line break read while a '['
\* is unclosed returns nothing, queues nothing and leaves the indentation
\* stack as it was, whatever its level; and a ']' read while no '[' is
\* unclosed is returned as RBracket and leaves the counter at 0.
C24_Brackets ==
    /\ ind.it.brackets >= 0
    /\ \A k \in 1..Len(ind.log) :
            LET e == ind.log[k]
            IN  /\ (e.raw = "Indent" /\ e.brackets > 0) =>
                        /\ e.after = e.before
                        /\ e.item = WNone
                        /\ e.queued = <<>>
                        /\ k < Len(ind.log)
                /\ (e.raw = "RBracket" /\ e.brackets = 0) =>
                        /\ e.item = WOk("RBracket")
                        /\ ind.it.brackets = 0
    /\ ind.it.brackets > 0 =>
            ~(ind.last.kind = "ok" /\ ind.last.tok = "Indent")
            /\ ind.last.tok # "MisalignedIndentation"

\* Inside brackets a line break to a level other than the open one was read,
\* with an identifier after it, which is what the call returned.
C24_Witness ==
    /\ Len(ind.log) = 2
    /\ ind.log[1].raw = "Indent"
    /\ ind.log[1].brackets > 0
    /\ ind.log[1].len - 1 > LastOr0(ind.log[1].before)
    /\ ind.last = WOk("Identifier")

\* A ']' was read while no '[' was unclosed.
C24_WitnessUnmatched ==
    /\ Len(ind.log) > 0
    /\ ind.log[Len(ind.log)].raw = "RBracket"
    /\ ind.log[Len(ind.log)].brackets = 0

\* The layouts open when the arm of the raw token of turn e runs: a pending
\* layout is opened by the first token that is no white space.
Opened(e) ==
    IF e.pending # None /\ e.raw \notin {"Whitespace", "Indent"}
    THEN Append(e.layouts, Layout(e.pending[1].kind, e.column))
    ELSE e.layouts

\* The index of the innermost layout of the given kind, 0 if there is none.
Innermost(ls, kind) ==
    LET K == {k \in 1..Len(ls) : ls[k].kind = kind}
    IN  IF K = {} THEN 0 ELSE Max(K)

\* The number of let and by layouts among ls[j..].
Blocks(ls, j) == Cardinality({k \in j..Len(ls) : ls[k].kind # "Paren"})

VRBraces(n) == [k \in 1..n |-> "VRBrace"]

\* What a turn returned, followed by what it left in the queue.
Produced(e) == (IF e.item.kind = "ok" THEN <<e.item.tok>> ELSE <<>>) \o e.queued

\* The queue is emptied in order, one token a call, before anything is read.
QueueFirst ==
    lay.before # <<>> =>
        /\ lay.last = WOk(Head(lay.before))
        /\ lay.it.queue = Tail(lay.before)
        /\ lay.log = <<>>

\* C25: 'in' of the layout wrapper. When the raw token In is read while a
\* let layout is open, the layouts from the innermost let on are popped and
\* the rest stay; the call returns, and queues in this order, one VRBrace for
\* each popped let or by (none for a popped parenthesis) and then In; and
\* queued tokens are returned in order before anything more is read.
C25_InCloses ==
    /\ QueueFirst
    /\ \A k \in 1..Len(lay.log) :
            LET e == lay.log[k]
                o == Opened(e)
                j == Innermost(o, "Let")
            IN  (e.raw = "In" /\ j > 0) =>
                    /\ e.after = SubSeq(o, 1, j - 1)
                    /\ Produced(e) = Append(VRBraces(Blocks(o, j)), "In")

\* 'in' was read with a by layout open inside the innermost let.
C25_Witness ==
    /\ Len(lay.log) > 0
    /\ LET e == lay.log[Len(lay.log)]
           o == Opened(e)
           j == Innermost(o, "Let")
       IN  /\ e.raw = "In"
           /\ j > 0
           /\ \E k \in (j + 1)..Len(o) : o[k].kind = "Other"
           /\ lay.last = WOk("VRBrace")
           /\ lay.it.queue = <<"VRBrace", "In">>

\* C26: ')' of the layout wrapper. When the raw token RParen is read while
\* a '(' is open, the layouts opened after the innermost '(' are popped with
\* one VRBrace each, the '(' is popped without one, the layouts opened before
\* it stay, and RParen comes after those VRBrace tokens.
C26_ParenCloses ==
    /\ lay.before # <<>> => lay.last = WOk(Head(lay.before))
    /\ \A k \in 1..Len(lay.log) :
            LET e == lay.log[k]
                o == Opened(e)
                j == Innermost(o, "Paren")
            IN  (e.raw = "RParen" /\ j > 0) =>
                    /\ e.after = SubSeq(o, 1, j - 1)
                    /\ Produced(e) = Append(VRBraces(Len(o) - j), "RParen")

\* ')' was read with a layout open inside the innermost '(' and a layout
\* open outside it.
C26_Witness ==
    /\ Len(lay.log) > 0
    /\ LET e == lay.log[Len(lay.log)]
           o == Opened(e)
           j == Innermost(o, "Paren")
       IN  /\ e.raw = "RParen"
           /\ j < Len(o)
           /\ \E n \in 1..(j - 1) : ~is_paren(o[n])
           /\ lay.last = WOk("VRBrace")
           /\ lay.it.queue = <<"RParen">>
           /\ Len(lay.it.layouts) = j - 1

\* C27: parentheses disable layout. A line break read while the innermost
\* open layout is a parenthesis returns nothing, queues nothing and pops
\* nothing, whatever its column; and no line break pops a parenthesis.
C27_ParenDisables ==
    \A k \in 1..Len(lay.log) :
        LET e == lay.log[k]
        IN  e.raw = "Indent" =>
                /\ (Len(e.layouts) > 0 /\ is_paren(e.layouts[Len(e.layouts)])) =>
                        /\ e.after = e.layouts
                        /\ e.item = WNone
                        /\ e.queued = <<>>
                /\ Len(e.after) <= Len(e.layouts)
                /\ e.after = SubSeq(e.layouts, 1, Len(e.after))
                /\ \A n \in (Len(e.after) + 1)..Len(e.layouts) : ~is_paren(e.layouts[n])

\* A line break at a column below that of an open layout was read inside a
\* parenthesis, no layout pending and no line break or 'in' after it.
C27_Witness ==
    \E k \in 1..(Len(lay.log) - 1) :
        LET e == lay.log[k]
        IN  /\ e.raw = "Indent"
            /\ e.pending = None
            /\ Len(e.layouts) > 1
            /\ is_paren(e.layouts[Len(e.layouts)])
            /\ \E n \in 1..Len(e.layouts) :
                    ~is_paren(e.layouts[n]) /\ e.len - 1 <= e.layouts[n].col
            /\ lay.log[k + 1].raw \notin {"Indent", "In"}

\* A line break popped the layouts inside a parenthesis and stopped at it.
C27_WitnessDedent ==
    /\ Len(lay.log) > 0
    /\ LET e == lay.log[Len(lay.log)]
       IN  /\ e.raw = "Indent"
           /\ Len(e.after) < Len(e.layouts)
           /\ Len(e.after) > 0
           /\ is_paren(e.after[Len(e.after)])

NoLexicalError == \A k \in 1..Len(lay.out) : lay.out[k].kind # "err"

\* C28: brace balance of the layout wrapper. In a run without lexical
\* error every VRBrace closes a VLBrace emitted before it, so no prefix of
\* the output has more VRBrace than VLBrace tokens, and when the iterator has
\* ended the two counts are equal and no layout is open.
C28_BraceBalance ==
    NoLexicalError =>
        /\ \A n \in 1..Len(lay.out) :
                CountOut(SubSeq(lay.out, 1, n), "VRBrace")
                    <= CountOut(SubSeq(lay.out, 1, n), "VLBrace")
        /\ lay.last.kind = "end" =>
                /\ CountOut(lay.out, "VLBrace") = CountOut(lay.out, "VRBrace")
                /\ lay.it.layouts = <<>>

====
